---- MODULE Spec2Model ----
(***************************************************************************)
(* Authentication / session lifecycle of the login-register application:   *)
(* the Express controllers register, login (both definitions found in      *)
(* userLoginController.ts), getUser, logoutUser, the middlewares           *)
(* verifyApiKey and verifyToken, and the two routers that chain them.      *)
(*                                                                         *)
(* Strings are sequences of one-character strings so that toLowerCase,     *)
(* trim and the regular expressions are computed, not assumed.             *)
(***************************************************************************)
EXTENDS Integers, Sequences, FiniteSets, TLC

VARIABLES
  users,      \* the rows of the user table
  nextId,     \* the next autoincrement id
  inflight,   \* register requests waiting between existence check and insert
  env,        \* process.env
  now,        \* the clock, in seconds
  jar,        \* the authToken cookie the browser holds
  loggedOut,  \* the token of the last session that was logged out
  last,       \* the last answered request
  hits,       \* per client IP, the hit counters of the two rate limiters
  reached,    \* per client IP, the requests that got past the limiters
  fe          \* the single-page application in the browser

vars == <<users, nextId, inflight, env, now, jar, loggedOut, last,
          hits, reached, fe>>

----------------------------------------------------------------------------
(* Bounds of the model                                                     *)

MaxInflight == 2

MaxTicks == 2

\* the requests the second client IP sends within one window
MaxOtherHits == 2

\* the redirects and the profile requests of the browser that are counted
MaxCalls == 4

----------------------------------------------------------------------------
(* Program constants                                                       *)

\* jwt.sign(..., { expiresIn: '1d' }) : seconds in one day
OneDay == 86400

\* maxAge: 24 * 60 * 60 * 1000 (milliseconds)
CookieMaxAge == 24 * 60 * 60 * 1000

\* bcrypt.genSalt(12)
SaltRounds == 12

NameMinLen == 2

NameMaxLen == 100

PasswordMinLen == 8

\* authLimiter: max: 10
AuthMax == 10

\* globalLimiter: max: 100
GlobalMax == 100

----------------------------------------------------------------------------
(* Characters and JavaScript string functions                              *)

LowerSeq == <<"a","b","c","d","e","f","g","h","i","j","k","l","m",
              "n","o","p","q","r","s","t","u","v","w","x","y","z">>

UpperSeq == <<"A","B","C","D","E","F","G","H","I","J","K","L","M",
              "N","O","P","Q","R","S","T","U","V","W","X","Y","Z">>

Range(f) == { f[i] : i \in DOMAIN f }

Letters == Range(LowerSeq) \cup Range(UpperSeq)

Digits == {"0","1","2","3","4","5","6","7","8","9"}

\* the characters matched by \s that occur in the inputs
Whitespace == {" ", "\t", "\n"}

toLowerChar(c) ==
  IF c \in Range(UpperSeq)
    THEN LowerSeq[CHOOSE i \in DOMAIN UpperSeq : UpperSeq[i] = c]
    ELSE c

\* String.prototype.toLowerCase
toLowerCase(s) == [i \in 1..Len(s) |-> toLowerChar(s[i])]

\* String.prototype.trim : drop leading and trailing whitespace
trim(s) ==
  IF \A i \in 1..Len(s) : s[i] \in Whitespace THEN <<>>
  ELSE LET lo == CHOOSE i \in 1..Len(s) :
                   /\ s[i] \notin Whitespace
                   /\ \A j \in 1..(i - 1) : s[j] \in Whitespace
           hi == CHOOSE i \in 1..Len(s) :
                   /\ s[i] \notin Whitespace
                   /\ \A j \in (i + 1)..Len(s) : s[j] \in Whitespace
       IN  SubSeq(s, lo, hi)

\* /^[a-zA-Z\s]+$/.test(s)
nameRegex(s) ==
  /\ Len(s) >= 1
  /\ \A i \in 1..Len(s) : s[i] \in Letters \cup Whitespace

\* /^[^\s@]+@[^\s@]+\.[^\s@]+$/.test(s)
emailRegex(s) ==
  \E i \in 1..Len(s), j \in 1..Len(s) :
     /\ s[i] = "@"
     /\ s[j] = "."
     /\ 1 < i
     /\ i + 1 < j
     /\ j < Len(s)
     /\ \A k \in 1..Len(s) : /\ s[k] \notin Whitespace
                             /\ (s[k] = "@" => k = i)

\* /[a-zA-Z0-9]/.test(s)
hasLetter_OrDigit(s) == \E i \in 1..Len(s) : s[i] \in Letters \cup Digits

\* /[a-zA-Z]/.test(s)
hasLetter(s) == \E i \in 1..Len(s) : s[i] \in Letters

\* /[0-9]/.test(s)
hasDigit(s) == \E i \in 1..Len(s) : s[i] \in Digits

----------------------------------------------------------------------------
(* JavaScript values of a request body field                               *)

JStr(s) == [t |-> "string", v |-> s]

Undefined == [t |-> "undefined", v |-> <<>>]

\* a non-string JSON value such as {"$gt": ""}
JObj == [t |-> "object", v |-> <<>>]

\* !x
Falsy(x) == x.t = "undefined" \/ (x.t = "string" /\ x.v = <<>>)

IsString(x) == x.t = "string"

----------------------------------------------------------------------------
(* Inputs: the request values the clients of the model send                *)

EmailLower == <<"a","@","b",".","c">>

EmailUpper == <<"A","@","b",".","c">>

EmailSpace == <<"a","@","b",".","c"," ">>

EmailOther == <<"x","@","y",".","z">>

EmailNoAt == <<"a","b",".","c">>

EmailInputs == { JStr(EmailLower), JStr(EmailUpper), JStr(EmailSpace),
                 JStr(EmailOther), JStr(EmailNoAt), Undefined, JObj }

PassGood == <<"p","a","s","s","w","0","r","d">>

PassOther == <<"h","u","n","t","e","r","2","2">>

PassShort == <<"s","h","o","r","t","1">>

PassNoDigit == <<"l","o","n","g","e","n","o","u","g","h">>

PassNoLetter == <<"1","2","3","4","5","6","7","8">>

\* too short, and without a letter
PassShortDigits == <<"1","2","3">>

PasswordInputs == { JStr(PassGood), JStr(PassOther), JStr(PassShort),
                    JStr(PassNoDigit), JStr(PassNoLetter),
                    JStr(PassShortDigits), Undefined, JObj }

NameGood == <<"J","o">>

NamePadded == <<" ","J","o"," ">>

NameShort == <<"J">>

NameDigit == <<"J","0">>

\* a tab between two letters
NameTab == <<"J","\t","o">>

NameInputs == { JStr(NameGood), JStr(NamePadded), JStr(NameShort),
                JStr(NameDigit), JStr(NameTab), Undefined }

\* values of the x-api-key header ("" : header absent)
ApiKeyInputs == {"", "key", "wrong"}

\* the store answers (TRUE) or the query throws (FALSE)
StoreAnswers == BOOLEAN

ClientIp == "ip"

\* a second client, with another address
OtherIp == "ip2"

ClientIps == {ClientIp, OtherIp}

----------------------------------------------------------------------------
(* Credential store (prisma.user)                                          *)

NoUser == [id |-> 0, name |-> <<>>, email |-> <<>>,
           password |-> [cost |-> 0, salt |-> 0, digest |-> <<>>],
           createdAt |-> 0]

\* prisma.user.findUnique({ where: { email } })
findUniqueByEmail(store, email) ==
  IF \E u \in store : u.email = email
    THEN CHOOSE u \in store : u.email = email
    ELSE NoUser

\* prisma.user.findUnique({ where: { id } })
findUniqueById(store, id) ==
  IF \E u \in store : u.id = id
    THEN CHOOSE u \in store : u.id = id
    ELSE NoUser

\* select: { id, name, email, createdAt }
\* a findUnique without the select clause: the whole row
selectProfile_WholeRow(u) == u

selectProfile(u) ==
  [id |-> u.id, name |-> u.name, email |-> u.email, createdAt |-> u.createdAt]

----------------------------------------------------------------------------
(* bcrypt                                                                  *)

\* bcrypt.hash(password, salt) : the salt and the cost are part of the hash
bcryptHash(password, salt) ==
  [cost |-> SaltRounds, salt |-> salt, digest |-> <<salt, password>>]

\* bcrypt.compare(password, hash) : re-hash with the embedded salt
bcryptCompare(password, hash) ==
  bcryptHash(password, hash.salt).digest = hash.digest

----------------------------------------------------------------------------
(* jsonwebtoken                                                            *)

NoToken == [kind |-> "none", id |-> 0, email |-> <<>>, iat |-> 0, exp |-> 0,
            sig |-> <<>>]

\* a string that is not a JWT
GarbageToken == [kind |-> "garbage", id |-> 0, email |-> <<>>, iat |-> 0,
                 exp |-> 0, sig |-> <<>>]

\* HMAC of the claims under a key
hmac(key, id, email, iat, exp) == <<key, id, email, iat, exp>>

\* a jwt.sign with expiresIn: '2d'
jwtSign_TwoDays(id, email, secret, t) ==
  [kind |-> "jwt", id |-> id, email |-> email, iat |-> t,
   exp |-> t + 2 * OneDay,
   sig |-> hmac(secret, id, email, t, t + 2 * OneDay)]

\* jwt.sign({ id, email }, secret, { expiresIn: '1d' }) at time t
jwtSign(id, email, secret, t) ==
  [kind |-> "jwt", id |-> id, email |-> email, iat |-> t, exp |-> t + OneDay,
   sig |-> hmac(secret, id, email, t, t + OneDay)]

NoClaims == [id |-> 0, email |-> <<>>, iat |-> 0, exp |-> 0]

\* a jwt.verify called with ignoreExpiration
jwtVerify_IgnoreExpiration(token, secret, t) ==
  IF token.kind # "jwt"
    THEN [ok |-> FALSE, err |-> "JsonWebTokenError", payload |-> NoClaims]
  ELSE IF token.sig # hmac(secret, token.id, token.email, token.iat, token.exp)
    THEN [ok |-> FALSE, err |-> "JsonWebTokenError", payload |-> NoClaims]
  ELSE [ok |-> TRUE, err |-> "",
        payload |-> [id |-> token.id, email |-> token.email,
                     iat |-> token.iat, exp |-> token.exp]]

\* jwt.verify(token, secret) at time t : the decoded payload or the error
jwtVerify(token, secret, t) ==
  IF token.kind # "jwt"
    THEN [ok |-> FALSE, err |-> "JsonWebTokenError", payload |-> NoClaims]
  ELSE IF token.sig # hmac(secret, token.id, token.email, token.iat, token.exp)
    THEN [ok |-> FALSE, err |-> "JsonWebTokenError", payload |-> NoClaims]
  ELSE IF t >= token.exp
    THEN [ok |-> FALSE, err |-> "TokenExpiredError", payload |-> NoClaims]
  ELSE [ok |-> TRUE, err |-> "",
        payload |-> [id |-> token.id, email |-> token.email,
                     iat |-> token.iat, exp |-> token.exp]]

----------------------------------------------------------------------------
(* Responses, cookies and log lines                                        *)

NoCookie == [act |-> "none", name |-> "", value |-> NoToken, path |-> "",
             httpOnly |-> FALSE, secure |-> FALSE, sameSite |-> "",
             maxAge |-> 0]

\* a res.cookie that marks the cookie Secure in every environment and
\* keeps it for a week
setAuthCookie_SecureWeek(token, e) ==
  [act |-> "set", name |-> "authToken", value |-> token, path |-> "/",
   httpOnly |-> TRUE, secure |-> TRUE,
   sameSite |-> "lax", maxAge |-> 7 * CookieMaxAge]

\* res.cookie('authToken', token, { httpOnly, secure, sameSite, maxAge });
\* no path option: express sets Path=/
setAuthCookie(token, e) ==
  [act |-> "set", name |-> "authToken", value |-> token, path |-> "/",
   httpOnly |-> TRUE, secure |-> (e.NODE_ENV = "production"),
   sameSite |-> "lax", maxAge |-> CookieMaxAge]

\* a res.clearCookie without the secure option
clearAuthCookie_NoSecure(e) ==
  [act |-> "clear", name |-> "authToken", value |-> NoToken, path |-> "/",
   httpOnly |-> TRUE, secure |-> FALSE,
   sameSite |-> "lax", maxAge |-> 0]

\* res.clearCookie('authToken', { httpOnly, secure, sameSite })
clearAuthCookie(e) ==
  [act |-> "clear", name |-> "authToken", value |-> NoToken, path |-> "/",
   httpOnly |-> TRUE, secure |-> (e.NODE_ENV = "production"),
   sameSite |-> "lax", maxAge |-> 0]

NoLog == [level |-> "none", message |-> "", meta |-> [none |-> TRUE]]

\* logger.info / logger.error / logger.security
logLine(level, message, meta) ==
  [level |-> level, message |-> message, meta |-> meta]

\* what one middleware or controller sends: res.status(..).json(..), the
\* cookie instruction and the line it logs
Out(by, status, body, cookie, log) ==
  [by |-> by, status |-> status, body |-> body, cookie |-> cookie, log |-> log]

Msg(m) == [message |-> m]

ServerFaultMsg == "Terjadi kesalahan pada server."

----------------------------------------------------------------------------
(* register (userRegisterController.ts)                                    *)

cleanNameOf(body) == trim(body.name.v)

\* a register that trims the email but keeps its case
cleanEmailOf_CaseSensitive(body) == trim(body.email.v)

cleanEmailOf(body) == trim(toLowerCase(body.email.v))

\* the catch block of register
registerCatch(err) ==
  Out("register", 500, Msg(ServerFaultMsg), NoCookie,
      logLine("ERROR", "Error pada proses registrasi", [error |-> err]))

\* register up to the existence check: the response it sends, or
\* done = FALSE when the request goes on to hash and insert
registerValidate(body, store, dbOk) ==
  IF \/ Falsy(body.name) \/ Falsy(body.email) \/ Falsy(body.password)
     \/ ~IsString(body.name) \/ ~IsString(body.email)
     \/ ~IsString(body.password)
    THEN [done |-> TRUE,
          out |-> Out("register", 400,
                      Msg("Nama, email, dan password wajib diisi!"),
                      NoCookie, NoLog)]
  ELSE IF \/ ~nameRegex(cleanNameOf(body))
          \/ Len(cleanNameOf(body)) < NameMinLen
          \/ Len(cleanNameOf(body)) > NameMaxLen
    THEN [done |-> TRUE,
          out |-> Out("register", 400,
                      Msg("Nama hanya boleh terdiri dari huruf dan spasi (2-100 karakter)!"),
                      NoCookie, NoLog)]
  ELSE IF ~emailRegex(cleanEmailOf(body))
    THEN [done |-> TRUE,
          out |-> Out("register", 400, Msg("Format email tidak valid!"),
                      NoCookie, NoLog)]
  ELSE IF Len(body.password.v) < PasswordMinLen
    THEN [done |-> TRUE,
          out |-> Out("register", 400, Msg("Password minimal 8 karakter!"),
                      NoCookie, NoLog)]
  ELSE IF ~hasLetter(body.password.v)
    THEN [done |-> TRUE,
          out |-> Out("register", 400,
                      Msg("Password harus mengandung minimal 1 huruf!"),
                      NoCookie, NoLog)]
  ELSE IF ~hasDigit(body.password.v)
    THEN [done |-> TRUE,
          out |-> Out("register", 400,
                      Msg("Password harus mengandung minimal 1 angka!"),
                      NoCookie, NoLog)]
  ELSE IF ~dbOk
    THEN [done |-> TRUE, out |-> registerCatch("StoreError")]
  ELSE IF findUniqueByEmail(store, cleanEmailOf(body)) # NoUser
    THEN [done |-> TRUE,
          out |-> Out("register", 400, Msg("Email sudah terdaftar!"),
                      NoCookie, NoLog)]
  ELSE [done |-> FALSE, out |-> Out("register", 0, Msg(""), NoCookie, NoLog)]

\* a create that replaces the rows of the table by the new row
prismaCreate_Replace(store, data, id, t, dbOk) ==
  IF ~dbOk
    THEN [ok |-> FALSE, err |-> "StoreError", user |-> NoUser, store |-> store]
  ELSE IF \E u \in store : u.email = data.email
    THEN [ok |-> FALSE, err |-> "UniqueConstraintViolation", user |-> NoUser,
          store |-> store]
  ELSE LET u == [id |-> id, name |-> data.name, email |-> data.email,
                 password |-> data.password, createdAt |-> t]
       IN  [ok |-> TRUE, err |-> "", user |-> u, store |-> {u}]

\* prisma.user.create({ data }) : the unique index on email rejects a
\* second row with the same email; id is the next autoincrement value
prismaCreate(store, data, id, t, dbOk) ==
  IF ~dbOk
    THEN [ok |-> FALSE, err |-> "StoreError", user |-> NoUser, store |-> store]
  ELSE IF \E u \in store : u.email = data.email
    THEN [ok |-> FALSE, err |-> "UniqueConstraintViolation", user |-> NoUser,
          store |-> store]
  ELSE LET u == [id |-> id, name |-> data.name, email |-> data.email,
                 password |-> data.password, createdAt |-> t]
       IN  [ok |-> TRUE, err |-> "", user |-> u, store |-> store \cup {u}]

\* register from bcrypt.genSalt to the response
registerCreate(body, store, id, salt, t, dbOk) ==
  LET hashedPassword == bcryptHash(body.password.v, salt)
      created == prismaCreate(store,
                              [name |-> cleanNameOf(body),
                               email |-> cleanEmailOf(body),
                               password |-> hashedPassword],
                              id, t, dbOk)
      newUser == created.user
  IN  IF ~created.ok
        THEN [out |-> registerCatch(created.err), store |-> store]
        ELSE [out |-> Out("register", 201,
                          [message |-> "Registrasi berhasil!",
                           data |-> [id |-> newUser.id, name |-> newUser.name,
                                     email |-> newUser.email]],
                          NoCookie,
                          logLine("INFO", "User baru terdaftar",
                                  [userId |-> newUser.id,
                                   email |-> newUser.email,
                                   ip |-> ClientIp])),
              store |-> created.store]

----------------------------------------------------------------------------
(* login, first definition of userLoginController.ts (lines 7-185)         *)

\* the catch block of login
loginCatch(err) ==
  Out("login", 500, Msg(ServerFaultMsg), NoCookie,
      logLine("ERROR", "Error pada proses login", [error |-> err]))

\* a login that tells the client that the email is not registered
loginUserNotFound_Distinct(body) ==
  Out("login", 404, Msg("Email tidak terdaftar!"), NoCookie,
      logLine("SECURITY", "Login gagal - email tidak ditemukan",
              [email |-> body.email.v, ip |-> ClientIp]))

\* a login that clears the cookie of a client it does not know
loginUserNotFound_ClearsCookie(body) ==
  Out("login", 401, Msg("Email atau password tidak valid!"),
      clearAuthCookie(env),
      logLine("SECURITY", "Login gagal - email tidak ditemukan",
              [email |-> body.email.v, ip |-> ClientIp]))

\* the reply to a login whose email matches no stored user
loginUserNotFound(body) ==
  Out("login", 401, Msg("Email atau password tidak valid!"), NoCookie,
      logLine("SECURITY", "Login gagal - email tidak ditemukan",
              [email |-> body.email.v, ip |-> ClientIp]))

login(body, store, e, t, dbOk) ==
  IF \/ Falsy(body.email) \/ Falsy(body.password)
     \/ ~IsString(body.email) \/ ~IsString(body.password)
    THEN [out |-> Out("login", 400, Msg("Email dan password wajib diisi!"),
                      NoCookie, NoLog),
          token |-> NoToken]
  ELSE IF ~emailRegex(body.email.v)
    THEN [out |-> Out("login", 400, Msg("Format email tidak valid!"),
                      NoCookie, NoLog),
          token |-> NoToken]
  ELSE IF ~dbOk
    THEN [out |-> loginCatch("StoreError"), token |-> NoToken]
  ELSE
    LET user == findUniqueByEmail(store, trim(toLowerCase(body.email.v)))
    IN  IF user = NoUser
          THEN [out |-> loginUserNotFound(body), token |-> NoToken]
        ELSE IF ~bcryptCompare(body.password.v, user.password)
          THEN [out |-> Out("login", 401,
                            Msg("Email atau password tidak valid!"), NoCookie,
                            logLine("SECURITY", "Login gagal - password salah",
                                    [userId |-> user.id, email |-> user.email,
                                     ip |-> ClientIp])),
                token |-> NoToken]
        ELSE IF e.JWT_SECRET = ""
          THEN [out |-> Out("login", 500, Msg(ServerFaultMsg), NoCookie,
                            logLine("ERROR", "JWT_SECRET tidak dikonfigurasi!",
                                    [none |-> TRUE])),
                token |-> NoToken]
        ELSE
          LET token == jwtSign(user.id, user.email, e.JWT_SECRET, t)
          IN  [out |-> Out("login", 200,
                           [message |-> "Login berhasil!",
                            user |-> [id |-> user.id, name |-> user.name,
                                      email |-> user.email]],
                           setAuthCookie(token, e),
                           logLine("INFO", "Login berhasil",
                                   [userId |-> user.id, email |-> user.email,
                                    ip |-> ClientIp])),
               token |-> token]

----------------------------------------------------------------------------
(* login, second definition of userLoginController.ts (lines 192-234)      *)

\* the catch block: the caught error object is part of the body
loginLegacyCatch(err) ==
  Out("login", 500,
      [message |-> "Terjadi kesalahan pada server", error |-> err],
      NoCookie, NoLog)

\* process.env.JWT_SECRET || 'secret'
legacySecret(e) == IF e.JWT_SECRET # "" THEN e.JWT_SECRET ELSE "secret"

loginLegacy(body, store, e, t, dbOk) ==
  IF Falsy(body.email) \/ Falsy(body.password)
    THEN [out |-> Out("login", 400, Msg("Email dan password wajib diisi!"),
                      NoCookie, NoLog),
          token |-> NoToken]
  \* findUnique({ where: { email } }) with a non-string email throws
  ELSE IF ~IsString(body.email)
    THEN [out |-> loginLegacyCatch("PrismaClientValidationError"),
          token |-> NoToken]
  ELSE IF ~dbOk
    THEN [out |-> loginLegacyCatch("StoreError"), token |-> NoToken]
  ELSE
    LET user == findUniqueByEmail(store, body.email.v)
    IN  IF user = NoUser
          THEN [out |-> Out("login", 401,
                            Msg("Email atau password tidak valid!"), NoCookie,
                            NoLog),
                token |-> NoToken]
        \* bcrypt.compare with a non-string password throws
        ELSE IF ~IsString(body.password)
          THEN [out |-> loginLegacyCatch("BcryptArgumentError"),
                token |-> NoToken]
        ELSE IF ~bcryptCompare(body.password.v, user.password)
          THEN [out |-> Out("login", 401,
                            Msg("Email atau password tidak valid!"), NoCookie,
                            NoLog),
                token |-> NoToken]
        ELSE
          LET token == jwtSign(user.id, user.email, legacySecret(e), t)
          IN  [out |-> Out("login", 200,
                           [message |-> "Login berhasil!",
                            token |-> token,
                            user |-> [id |-> user.id, name |-> user.name,
                                      email |-> user.email]],
                           NoCookie, NoLog),
               token |-> token]

----------------------------------------------------------------------------
(* authMiddleware.ts                                                       *)

\* verifyApiKey: next() or the 403 it sends
verifyApiKey(apiKey, e, path) ==
  IF apiKey = ""
    THEN [next |-> FALSE,
          out |-> Out("verifyApiKey", 403, Msg("API Key diperlukan!"),
                      NoCookie,
                      logLine("SECURITY", "Percobaan akses tanpa API Key",
                              [ip |-> ClientIp, path |-> path]))]
  ELSE IF apiKey # e.API_KEY
    THEN [next |-> FALSE,
          out |-> Out("verifyApiKey", 403, Msg("API Key tidak valid!"),
                      NoCookie,
                      logLine("SECURITY", "API Key tidak valid",
                              [ip |-> ClientIp, path |-> path]))]
  ELSE [next |-> TRUE, out |-> Out("verifyApiKey", 0, Msg(""), NoCookie, NoLog)]

\* the first word of an Authorization header ("Bearer")
SchemeWord == [kind |-> "scheme", id |-> 0, email |-> <<>>, iat |-> 0,
               exp |-> 0, sig |-> <<>>]

\* authHeader && authHeader.split(' ')[1] ; the header is the sequence of
\* its space-separated words, <<>> when the header is absent
tokenFromHeaderOf(authHeader) ==
  IF Len(authHeader) >= 2 THEN authHeader[2] ELSE NoToken

\* tokenFromHeader || tokenFromCookie
extractToken_HeaderFirst(cookieToken, authHeader) ==
  IF tokenFromHeaderOf(authHeader) # NoToken
    THEN tokenFromHeaderOf(authHeader)
    ELSE cookieToken

\* tokenFromCookie || tokenFromHeader
extractToken(cookieToken, authHeader) ==
  IF cookieToken # NoToken THEN cookieToken ELSE tokenFromHeaderOf(authHeader)

\* a verifyToken that tells the client when the token has expired
verifyToken_NamesExpiry(cookieToken, authHeader, e, t, path) ==
  LET token == extractToken(cookieToken, authHeader)
      decoded == jwtVerify(token, e.JWT_SECRET, t)
  IN  IF token = NoToken
        THEN [next |-> FALSE, user |-> NoClaims, token |-> token,
              out |-> Out("verifyToken", 401, Msg("Token akses diperlukan!"),
                          NoCookie,
                          logLine("SECURITY", "Percobaan akses tanpa token",
                                  [ip |-> ClientIp, path |-> path]))]
      ELSE IF e.JWT_SECRET = ""
        THEN [next |-> FALSE, user |-> NoClaims, token |-> token,
              out |-> Out("verifyToken", 500, Msg(ServerFaultMsg), NoCookie,
                          logLine("ERROR",
                                  "JWT_SECRET tidak dikonfigurasi di environment!",
                                  [none |-> TRUE]))]
      ELSE IF decoded.ok
        THEN [next |-> TRUE, user |-> decoded.payload, token |-> token,
              out |-> Out("verifyToken", 0, Msg(""), NoCookie, NoLog)]
      ELSE [next |-> FALSE, user |-> NoClaims, token |-> token,
            out |-> Out("verifyToken", 403,
                        Msg(IF decoded.err = "TokenExpiredError"
                              THEN "Token sudah expired!"
                              ELSE "Token tidak valid!"),
                        NoCookie,
                        logLine("SECURITY", "Token tidak valid atau expired",
                                [ip |-> ClientIp, path |-> path,
                                 errorType |-> decoded.err]))]

\* a verifyToken that answers 401 to a token that fails verification
verifyToken_Unauthorized(cookieToken, authHeader, e, t, path) ==
  LET token == extractToken(cookieToken, authHeader)
      decoded == jwtVerify(token, e.JWT_SECRET, t)
  IN  IF token = NoToken
        THEN [next |-> FALSE, user |-> NoClaims, token |-> token,
              out |-> Out("verifyToken", 401, Msg("Token akses diperlukan!"),
                          NoCookie,
                          logLine("SECURITY", "Percobaan akses tanpa token",
                                  [ip |-> ClientIp, path |-> path]))]
      ELSE IF e.JWT_SECRET = ""
        THEN [next |-> FALSE, user |-> NoClaims, token |-> token,
              out |-> Out("verifyToken", 500, Msg(ServerFaultMsg), NoCookie,
                          logLine("ERROR",
                                  "JWT_SECRET tidak dikonfigurasi di environment!",
                                  [none |-> TRUE]))]
      ELSE IF decoded.ok
        THEN [next |-> TRUE, user |-> decoded.payload, token |-> token,
              out |-> Out("verifyToken", 0, Msg(""), NoCookie, NoLog)]
      ELSE [next |-> FALSE, user |-> NoClaims, token |-> token,
            out |-> Out("verifyToken", 401,
                        Msg("Token tidak valid atau sudah expired!"), NoCookie,
                        logLine("SECURITY", "Token tidak valid atau expired",
                                [ip |-> ClientIp, path |-> path,
                                 errorType |-> decoded.err]))]

\* a verifyToken that falls back on the Authorization header when the
\* cookie token fails verification
verifyToken_HeaderFallback(cookieToken, authHeader, e, t, path) ==
  LET first == extractToken(cookieToken, authHeader)
      second == extractToken(NoToken, authHeader)
      token == IF first # NoToken /\ ~jwtVerify(first, e.JWT_SECRET, t).ok
                  /\ second # NoToken
                 THEN second ELSE first
      decoded == jwtVerify(token, e.JWT_SECRET, t)
  IN  IF token = NoToken
        THEN [next |-> FALSE, user |-> NoClaims, token |-> token,
              out |-> Out("verifyToken", 401, Msg("Token akses diperlukan!"),
                          NoCookie,
                          logLine("SECURITY", "Percobaan akses tanpa token",
                                  [ip |-> ClientIp, path |-> path]))]
      ELSE IF e.JWT_SECRET = ""
        THEN [next |-> FALSE, user |-> NoClaims, token |-> token,
              out |-> Out("verifyToken", 500, Msg(ServerFaultMsg), NoCookie,
                          logLine("ERROR",
                                  "JWT_SECRET tidak dikonfigurasi di environment!",
                                  [none |-> TRUE]))]
      ELSE IF decoded.ok
        THEN [next |-> TRUE, user |-> decoded.payload, token |-> token,
              out |-> Out("verifyToken", 0, Msg(""), NoCookie, NoLog)]
      ELSE [next |-> FALSE, user |-> NoClaims, token |-> token,
            out |-> Out("verifyToken", 403,
                        Msg("Token tidak valid atau sudah expired!"), NoCookie,
                        logLine("SECURITY", "Token tidak valid atau expired",
                                [ip |-> ClientIp, path |-> path,
                                 errorType |-> decoded.err]))]

\* a verifyToken without the return after the 500 of a missing secret: it
\* responds and goes on to next()
verifyToken_NoReturn(cookieToken, authHeader, e, t, path) ==
  LET token == extractToken(cookieToken, authHeader)
      decoded == jwtVerify(token, e.JWT_SECRET, t)
  IN  IF token = NoToken
        THEN [next |-> FALSE, user |-> NoClaims, token |-> token,
              out |-> Out("verifyToken", 401, Msg("Token akses diperlukan!"),
                          NoCookie,
                          logLine("SECURITY", "Percobaan akses tanpa token",
                                  [ip |-> ClientIp, path |-> path]))]
      ELSE IF e.JWT_SECRET = ""
        THEN [next |-> TRUE, user |-> NoClaims, token |-> token,
              out |-> Out("verifyToken", 500, Msg(ServerFaultMsg), NoCookie,
                          logLine("ERROR",
                                  "JWT_SECRET tidak dikonfigurasi di environment!",
                                  [none |-> TRUE]))]
      ELSE IF decoded.ok
        THEN [next |-> TRUE, user |-> decoded.payload, token |-> token,
              out |-> Out("verifyToken", 0, Msg(""), NoCookie, NoLog)]
      ELSE [next |-> FALSE, user |-> NoClaims, token |-> token,
            out |-> Out("verifyToken", 403,
                        Msg("Token tidak valid atau sudah expired!"), NoCookie,
                        logLine("SECURITY", "Token tidak valid atau expired",
                                [ip |-> ClientIp, path |-> path,
                                 errorType |-> decoded.err]))]

\* verifyToken: next() with req.user set, or the response it sends
verifyToken(cookieToken, authHeader, e, t, path) ==
  LET token == extractToken(cookieToken, authHeader)
      decoded == jwtVerify(token, e.JWT_SECRET, t)
  IN  IF token = NoToken
        THEN [next |-> FALSE, user |-> NoClaims, token |-> token,
              out |-> Out("verifyToken", 401, Msg("Token akses diperlukan!"),
                          NoCookie,
                          logLine("SECURITY", "Percobaan akses tanpa token",
                                  [ip |-> ClientIp, path |-> path]))]
      ELSE IF e.JWT_SECRET = ""
        THEN [next |-> FALSE, user |-> NoClaims, token |-> token,
              out |-> Out("verifyToken", 500, Msg(ServerFaultMsg), NoCookie,
                          logLine("ERROR",
                                  "JWT_SECRET tidak dikonfigurasi di environment!",
                                  [none |-> TRUE]))]
      ELSE IF decoded.ok
        THEN [next |-> TRUE, user |-> decoded.payload, token |-> token,
              out |-> Out("verifyToken", 0, Msg(""), NoCookie, NoLog)]
      ELSE [next |-> FALSE, user |-> NoClaims, token |-> token,
            out |-> Out("verifyToken", 403,
                        Msg("Token tidak valid atau sudah expired!"), NoCookie,
                        logLine("SECURITY", "Token tidak valid atau expired",
                                [ip |-> ClientIp, path |-> path,
                                 errorType |-> decoded.err]))]

----------------------------------------------------------------------------
(* userGetController.ts                                                    *)

\* a getUser that prefers the id the client put in the request
getUser_ByRequestId(req, store, dbOk) ==
  LET userId == IF req.query # 0 THEN req.query ELSE req.user.id
  IN  IF userId = 0
        THEN Out("getUser", 401, Msg("Tidak dapat mengautentikasi pengguna."),
                 NoCookie, NoLog)
      ELSE IF ~dbOk
        THEN Out("getUser", 500, Msg(ServerFaultMsg), NoCookie,
                 logLine("ERROR", "Error saat mengambil profil user",
                         [userId |-> userId, error |-> "StoreError"]))
      ELSE IF findUniqueById(store, userId) = NoUser
        THEN Out("getUser", 404, Msg("Pengguna tidak ditemukan."), NoCookie,
                 NoLog)
      ELSE Out("getUser", 200,
               [message |-> "Data profil berhasil diambil.",
                data |-> selectProfile(findUniqueById(store, userId))],
               NoCookie, NoLog)

\* getUser: req carries the identity attached by verifyToken (req.user)
\* and whatever id the client put in the URL, query string or body
getUser(req, store, dbOk) ==
  LET userId == req.user.id
  IN  IF userId = 0
        THEN Out("getUser", 401, Msg("Tidak dapat mengautentikasi pengguna."),
                 NoCookie, NoLog)
      ELSE IF ~dbOk
        THEN Out("getUser", 500, Msg(ServerFaultMsg), NoCookie,
                 logLine("ERROR", "Error saat mengambil profil user",
                         [userId |-> userId, error |-> "StoreError"]))
      ELSE IF findUniqueById(store, userId) = NoUser
        THEN Out("getUser", 404, Msg("Pengguna tidak ditemukan."), NoCookie,
                 NoLog)
      ELSE Out("getUser", 200,
               [message |-> "Data profil berhasil diambil.",
                data |-> selectProfile(findUniqueById(store, userId))],
               NoCookie, NoLog)

\* logoutUser
logoutUser(req, e) ==
  Out("logoutUser", 200, Msg("Logout berhasil."), clearAuthCookie(e),
      logLine("INFO", "User logout",
              [userId |-> req.user.id, ip |-> ClientIp]))

----------------------------------------------------------------------------
(* Routers: the middleware chain in front of each controller               *)

\* the record of one answered request: the route, who answered and what,
\* req.user as verifyToken left it, and whether the controller ran
Reply(op, o, user, ran) ==
  [op |-> op, by |-> o.by, status |-> o.status, body |-> o.body,
   cookie |-> o.cookie, log |-> o.log, user |-> user, ran |-> ran]

\* router.get('/profile', verifyToken, getUser)
profileRoute(cookieToken, authHeader, query, store, e, t, dbOk) ==
  LET v == verifyToken(cookieToken, authHeader, e, t, "/profile")
  IN  IF ~v.next
        THEN Reply("profile", v.out, NoClaims, FALSE)
        ELSE Reply("profile",
                   getUser([user |-> v.user, query |-> query], store, dbOk),
                   v.user, TRUE)

\* router.post('/logout', verifyToken, logout)
logoutRoute(cookieToken, authHeader, e, t) ==
  LET v == verifyToken(cookieToken, authHeader, e, t, "/logout")
  IN  IF ~v.next
        THEN Reply("logout", v.out, NoClaims, FALSE)
        ELSE Reply("logout", logoutUser([user |-> v.user], e), v.user, TRUE)

----------------------------------------------------------------------------
(* The requests the clients send                                           *)

RegBody(name, email, password) ==
  [name |-> name, email |-> email, password |-> password]

\* every combination of the field inputs
AllRegisterBodies ==
  [name : NameInputs, email : EmailInputs, password : PasswordInputs]

\* the register requests that are sent: the acceptable ones, and for each
\* check of the controller some that fail it
RegisterBodies ==
  { RegBody(JStr(NamePadded), JStr(EmailLower), JStr(PassGood)),
    RegBody(JStr(NamePadded), JStr(EmailUpper), JStr(PassGood)),
    RegBody(JStr(NamePadded), JStr(EmailSpace), JStr(PassGood)),
    RegBody(JStr(NameGood), JStr(EmailOther), JStr(PassOther)),
    RegBody(Undefined, JStr(EmailLower), JStr(PassGood)),
    RegBody(JStr(NamePadded), JObj, JStr(PassGood)),
    RegBody(JStr(NamePadded), JStr(EmailLower), Undefined),
    RegBody(JStr(NameShort), JStr(EmailLower), JStr(PassGood)),
    RegBody(JStr(NameDigit), JStr(EmailUpper), JStr(PassShort)),
    RegBody(JStr(NamePadded), JStr(EmailNoAt), JStr(PassGood)),
    RegBody(JStr(NamePadded), JStr(EmailOther), JStr(PassShort)),
    RegBody(JStr(NamePadded), JStr(EmailOther), JStr(PassNoDigit)),
    RegBody(JStr(NamePadded), JStr(EmailLower), JStr(PassNoLetter)) }

LoginBody(email, password) == [email |-> email, password |-> password]

AllLoginBodies == [email : EmailInputs, password : PasswordInputs]

LoginBodies ==
  { LoginBody(JStr(EmailLower), JStr(PassGood)),
    LoginBody(JStr(EmailLower), JStr(PassOther)),
    LoginBody(JStr(EmailUpper), JStr(PassGood)),
    LoginBody(JStr(EmailSpace), JStr(PassGood)),
    LoginBody(JStr(EmailOther), JStr(PassOther)),
    LoginBody(JStr(EmailOther), JStr(PassGood)),
    LoginBody(JStr(EmailNoAt), JStr(PassGood)),
    LoginBody(JObj, JStr(PassGood)),
    LoginBody(Undefined, JStr(PassGood)),
    LoginBody(JStr(EmailLower), Undefined),
    LoginBody(JStr(EmailLower), JObj) }

\* a token whose id claim was changed after signing
tamper(tok) == [tok EXCEPT !.id = IF tok.id = 1 THEN 2 ELSE 1]

\* a token for user 1 signed by a client with a guessed key
forgedToken(t) == jwtSign(1, EmailLower, "secret", t)

----------------------------------------------------------------------------
(* State                                                                   *)

NoReply == Reply("none", Out("none", 0, Msg(""), NoCookie, NoLog),
                 NoClaims, FALSE)

\* process.env: JWT_SECRET set or not ("" : unset), NODE_ENV, API_KEY
Envs == { [JWT_SECRET |-> "k1", NODE_ENV |-> "production", API_KEY |-> "key"],
          [JWT_SECRET |-> "k1", NODE_ENV |-> "development", API_KEY |-> "key"],
          [JWT_SECRET |-> "", NODE_ENV |-> "development", API_KEY |-> "key"] }

\* the clock advances by half the lifetime of a token
TickSeconds == OneDay \div 2

\* the tokens a client can present: none, garbage, the cookie of the
\* browser, the token of the session logged out last, a tampered copy of
\* the cookie, and the forged one
TokenChoices ==
  {NoToken, GarbageToken, jar, loggedOut, forgedToken(now)}
     \cup { tamper(x) : x \in {jar} \ {NoToken} }

\* the Authorization headers a client can send
HeaderChoices ==
  {<<>>, <<SchemeWord>>}
     \cup { <<SchemeWord, x>> : x \in {jar, loggedOut, forgedToken(now)} \ {NoToken} }

\* every combination of cookie and Authorization header
AllCredentials == [cookie : TokenChoices, header : HeaderChoices]

\* the combinations that are sent: a cookie alone, a header alone, and a
\* cookie together with a header that carries another token
CredentialChoices ==
  { [cookie |-> c, header |-> <<>>] : c \in TokenChoices }
    \cup { [cookie |-> NoToken, header |-> h] : h \in HeaderChoices }
    \cup { [cookie |-> c, header |-> <<SchemeWord, x>>] :
             c \in {GarbageToken, forgedToken(now)}, x \in {jar} \ {NoToken} }
    \cup { [cookie |-> x, header |-> <<SchemeWord, forgedToken(now)>>] :
             x \in {jar} \ {NoToken} }

\* the user ids a client can put in the URL or query string (0: none)
QueryIds == 0..(nextId - 1)

\* which store call of the request throws, if any
StoreFaults == {"none", "find", "create"}

ValidRegisterBodies ==
  { RegBody(JStr(NamePadded), JStr(EmailLower), JStr(PassGood)),
    RegBody(JStr(NameGood), JStr(EmailOther), JStr(PassOther)) }

\* the register requests with the store call that fails, if any
RegisterRequests ==
  { [body |-> b, fault |-> "none"] :
      b \in RegisterBodies
             \cup { RegBody(JStr(NamePadded), JStr(EmailLower),
                            JStr(PassShortDigits)),
                    RegBody(JStr(NameTab), JStr(EmailOther),
                            JStr(PassOther)) } }
    \cup { [body |-> RegBody(JStr(NamePadded), JStr(EmailLower), JStr(PassGood)),
            fault |-> f] : f \in StoreFaults }

\* the login requests, and whether the store answers
LoginRequests ==
  { [body |-> b, dbOk |-> TRUE] : b \in LoginBodies }
    \cup { [body |-> LoginBody(JStr(EmailLower), JStr(PassGood)),
            dbOk |-> FALSE] }

\* the profile requests, and whether the store answers; a request that
\* carries the browser's cookie also tries every id in the URL
ProfileRequests ==
  { [cred |-> c, query |-> 0, dbOk |-> TRUE] : c \in CredentialChoices }
    \cup { [cred |-> [cookie |-> jar, header |-> <<>>], query |-> q,
            dbOk |-> ok] : q \in QueryIds, ok \in StoreAnswers }

\* the browser before a document of the application is loaded
NoPage ==
  [path |-> "none", view |-> "none", guard |-> "", isLoading |-> FALSE,
   isAuthenticated |-> FALSE, check |-> "idle", checkCookie |-> NoToken,
   home |-> "off", homeCookie |-> NoToken, reload |-> FALSE, error |-> "",
   redirects |-> 0, profileCalls |-> 0]

Init ==
  /\ users = {}
  /\ nextId = 1
  /\ inflight = <<>>
  /\ env \in Envs
  /\ now = 0
  /\ jar = NoToken
  /\ loggedOut = NoToken
  /\ last = NoReply
  /\ hits = [ip \in ClientIps |-> [global |-> 0, auth |-> 0]]
  /\ reached = [ip \in ClientIps |-> [any |-> 0, auth |-> 0]]
  /\ fe = NoPage

RemoveAt(q, i) == SubSeq(q, 1, i - 1) \o SubSeq(q, i + 1, Len(q))

\* bcrypt.genSalt(12): a salt no stored hash has
genSalt(id) == id

\* POST /register, the whole handler, no other register running meanwhile
RegisterOf(requests) ==
  \E rq \in requests :
    LET body == rq.body
        v == registerValidate(body, users, rq.fault # "find")
        r == registerCreate(body, users, nextId, genSalt(nextId), now,
                            rq.fault # "create")
    IN  /\ inflight = <<>>
        /\ IF v.done
             THEN /\ last' = Reply("register", v.out, NoClaims, TRUE)
                  /\ UNCHANGED <<users, nextId>>
             ELSE /\ last' = Reply("register", r.out, NoClaims, TRUE)
                  /\ users' = r.store
                  /\ nextId' = IF r.out.status = 201 THEN nextId + 1 ELSE nextId
        /\ UNCHANGED <<inflight, env, now, jar, loggedOut,
                       hits, reached, fe>>

Register == RegisterOf(RegisterRequests)

\* POST /register up to the existence check; a request that passes it waits
\* in the awaits of bcrypt while other requests run
RegisterAwait ==
  \E body \in RegisterBodies, dbOk \in StoreAnswers :
    LET v == registerValidate(body, users, dbOk)
    IN  /\ IF v.done
             THEN /\ last' = Reply("register", v.out, NoClaims, TRUE)
                  /\ inflight' = inflight
             ELSE /\ Len(inflight) < MaxInflight
                  /\ inflight' = Append(inflight, body)
                  /\ last' = last
        /\ UNCHANGED <<users, nextId, env, now, jar, loggedOut,
                       hits, reached, fe>>

\* the rest of a waiting register: hash, insert, respond
RegisterResume ==
  \E i \in 1..Len(inflight), dbOk \in StoreAnswers :
    LET r == registerCreate(inflight[i], users, nextId, genSalt(nextId), now, dbOk)
    IN  /\ users' = r.store
        /\ nextId' = IF r.out.status = 201 THEN nextId + 1 ELSE nextId
        /\ inflight' = RemoveAt(inflight, i)
        /\ last' = Reply("register", r.out, NoClaims, TRUE)
        /\ UNCHANGED <<env, now, jar, loggedOut,
                       hits, reached, fe>>

\* what the browser does with the cookie instruction of a response
applyCookie(cookie, held) ==
  IF cookie.act = "set" THEN cookie.value
  ELSE IF cookie.act = "clear" THEN NoToken
  ELSE held

\* POST /login handled by the first definition of login
LoginOf(requests) ==
  \E rq \in requests :
    LET r == login(rq.body, users, env, now, rq.dbOk)
    IN  /\ last' = Reply("login", r.out, NoClaims, TRUE)
        /\ jar' = applyCookie(r.out.cookie, jar)
        /\ UNCHANGED <<users, nextId, inflight, env, now, loggedOut,
                       hits, reached, fe>>

Login == LoginOf(LoginRequests)

\* POST /login handled by the second definition of login
LoginLegacy ==
  \E rq \in LoginRequests :
    LET r == loginLegacy(rq.body, users, env, now, rq.dbOk)
    IN  /\ last' = Reply("loginLegacy", r.out, NoClaims, TRUE)
        /\ jar' = applyCookie(r.out.cookie, jar)
        /\ UNCHANGED <<users, nextId, inflight, env, now, loggedOut,
                       hits, reached, fe>>

\* a request to a route of userRoutes.ts that verifyApiKey turns away
\* (with the right key the request goes on as in the other actions)
ApiKeyRejectOf(routes) ==
  \E route \in routes, apiKey \in ApiKeyInputs :
    LET k == verifyApiKey(apiKey, env, route.path)
    IN  /\ ~k.next
        /\ last' = Reply(route.op, k.out, NoClaims, FALSE)
        /\ UNCHANGED <<users, nextId, inflight, env, now, jar, loggedOut,
                       hits, reached, fe>>

ApiKeyReject ==
  ApiKeyRejectOf({ [op |-> "register", path |-> "/register"],
                   [op |-> "login", path |-> "/login"],
                   [op |-> "profile", path |-> "/profile"] })

\* GET /profile
GetProfile ==
  \E rq \in ProfileRequests :
    /\ last' = profileRoute(rq.cred.cookie, rq.cred.header, rq.query, users,
                            env, now, rq.dbOk)
    /\ UNCHANGED <<users, nextId, inflight, env, now, jar, loggedOut,
                   hits, reached, fe>>

\* GET /profile of a client that sends an authToken cookie and a Bearer
\* token at once
GetProfileBoth ==
  \E cred \in AllCredentials :
    /\ cred.cookie # NoToken
    /\ Len(cred.header) = 2
    /\ last' = profileRoute(cred.cookie, cred.header, 0, users, env, now, TRUE)
    /\ UNCHANGED <<users, nextId, inflight, env, now, jar, loggedOut,
                   hits, reached, fe>>

\* an identity kept in one place for all requests: a handler reads what
\* the verifyToken that ran last has written
identityOf_Shared(pending, i) == pending[Len(pending)].user

\* req.user of the i-th request that waits for the store: what verifyToken
\* attached to that request object
identityOf(pending, i) == pending[i].user

\* GET /profile up to the await of getUser: verifyToken answers, or
\* attaches the decoded identity to the request, which then waits for
\* prisma.user.findUnique
ProfileAwait ==
  \E cred \in CredentialChoices :
    LET v == verifyToken(cred.cookie, cred.header, env, now, "/profile")
    IN  /\ IF ~v.next
             THEN /\ last' = Reply("profile", v.out, NoClaims, FALSE)
                  /\ inflight' = inflight
             ELSE /\ Len(inflight) < MaxInflight
                  /\ inflight' = Append(inflight,
                                        [cookie |-> cred.cookie,
                                         header |-> cred.header,
                                         user |-> v.user])
                  /\ last' = last
        /\ UNCHANGED <<users, nextId, env, now, jar, loggedOut,
                       hits, reached, fe>>

\* the rest of a waiting getUser: the store answers, the handler responds
ProfileResume ==
  \E i \in 1..Len(inflight), dbOk \in StoreAnswers :
    LET user == identityOf(inflight, i)
    IN  /\ last' = Reply("profile",
                         getUser([user |-> user, query |-> 0], users, dbOk),
                         user, TRUE)
        /\ inflight' = RemoveAt(inflight, i)
        /\ UNCHANGED <<users, nextId, env, now, jar, loggedOut,
                       hits, reached, fe>>

\* a logout that rotates the signing secret of the server
Logout_RotatesSecret ==
  \E cred \in CredentialChoices :
    LET r == logoutRoute(cred.cookie, cred.header, env, now)
    IN  /\ last' = r
        /\ jar' = applyCookie(r.cookie, jar)
        /\ loggedOut' = IF r.ran THEN extractToken(cred.cookie, cred.header)
                        ELSE loggedOut
        /\ env' = IF r.ran THEN [env EXCEPT !.JWT_SECRET = "k2"] ELSE env
        /\ UNCHANGED <<users, nextId, inflight, now,
                       hits, reached, fe>>

\* POST /logout
Logout ==
  \E cred \in CredentialChoices :
    LET r == logoutRoute(cred.cookie, cred.header, env, now)
    IN  /\ last' = r
        /\ jar' = applyCookie(r.cookie, jar)
        /\ loggedOut' = IF r.ran THEN extractToken(cred.cookie, cred.header)
                        ELSE loggedOut
        /\ UNCHANGED <<users, nextId, inflight, env, now,
                       hits, reached, fe>>

\* time passes
Tick ==
  /\ now < MaxTicks * TickSeconds
  /\ now' = now + TickSeconds
  /\ UNCHANGED <<users, nextId, inflight, env, jar, loggedOut, last,
                 hits, reached, fe>>

----------------------------------------------------------------------------
(* Rate limiting (express-rate-limit in front of the routes)               *)

\* a limiter that lets one request more through than max
rateLimit_OffByOne(count, max) ==
  [count |-> IF count <= max THEN count + 1 ELSE count,
   pass |-> count <= max]

\* rateLimit({ windowMs, max }) on one request of a client whose counter in
\* the current window is count: the request is counted, and answered by the
\* limiter once the counter exceeds max (the counter is kept up to max + 1)
rateLimit(count, max) ==
  [count |-> IF count <= max THEN count + 1 ELSE count,
   pass |-> count + 1 <= max]

\* the 429 of globalLimiter
globalLimiterOut ==
  Out("globalLimiter", 429,
      Msg("Terlalu banyak request dari IP ini, coba lagi setelah 15 menit."),
      NoCookie, NoLog)

\* the 429 of authLimiter
authLimiterOut ==
  Out("authLimiter", 429,
      Msg("Terlalu banyak percobaan, coba lagi setelah 15 menit."),
      NoCookie, NoLog)

\* the routes, and whether authLimiter stands in front of them
Routes ==
  { [op |-> "register", auth |-> TRUE], [op |-> "login", auth |-> TRUE],
    [op |-> "profile", auth |-> FALSE] }

\* what the route answers to the request the clients of the limiter send:
\* a register without a name, a login of an unknown user, a profile
\* request without a token
routeOut(op) ==
  IF op = "register"
    THEN registerValidate(RegBody(Undefined, JStr(EmailLower), JStr(PassGood)),
                          users, TRUE).out
  ELSE IF op = "login"
    THEN login(LoginBody(JStr(EmailOther), JStr(PassOther)), users, env, now,
               TRUE).out
  ELSE verifyToken(NoToken, <<>>, env, now, "/profile").out

\* a request to the application of index.ts with the router that has
\* authLimiter: app.use(globalLimiter), then the route
LimitedRequest ==
  \E ip \in ClientIps, route \in Routes :
    LET g == rateLimit(hits[ip].global, GlobalMax)
        a == rateLimit(hits[ip].auth, AuthMax)
    IN  /\ ip = OtherIp => hits[ip].global < MaxOtherHits
        /\ IF ~g.pass
             THEN /\ hits' = [hits EXCEPT ![ip].global = g.count]
                  /\ reached' = reached
                  /\ last' = Reply(route.op, globalLimiterOut, NoClaims, FALSE)
           ELSE IF route.auth /\ ~a.pass
             THEN /\ hits' = [hits EXCEPT ![ip].global = g.count,
                                          ![ip].auth = a.count]
                  /\ reached' = [reached EXCEPT ![ip].any = @ + 1]
                  /\ last' = Reply(route.op, authLimiterOut, NoClaims, FALSE)
           ELSE /\ hits' = [hits EXCEPT
                              ![ip].global = g.count,
                              ![ip].auth = IF route.auth THEN a.count ELSE @]
                /\ reached' = [reached EXCEPT
                                 ![ip].any = @ + 1,
                                 ![ip].auth = IF route.auth THEN @ + 1 ELSE @]
                /\ last' = Reply(route.op, routeOut(route.op), NoClaims,
                                 route.op # "profile")
        /\ UNCHANGED <<users, nextId, inflight, env, now, jar, loggedOut, fe>>

\* a request to the application of the second index.ts with the router of
\* userRoutes.ts: no limiter in front of verifyApiKey and the route
UnlimitedRequest ==
  \E ip \in ClientIps, route \in Routes, apiKey \in ApiKeyInputs :
    LET k == verifyApiKey(apiKey, env, route.op)
    IN  /\ ip = OtherIp => reached[ip].any < MaxOtherHits
        /\ reached[ip].any <= GlobalMax
        /\ route.auth => reached[ip].auth <= AuthMax
        /\ reached' = [reached EXCEPT
                         ![ip].any = @ + 1,
                         ![ip].auth = IF route.auth /\ k.next THEN @ + 1 ELSE @]
        /\ last' = IF k.next
                     THEN Reply(route.op, routeOut(route.op), NoClaims,
                                route.op # "profile")
                     ELSE Reply(route.op, k.out, NoClaims, FALSE)
        /\ UNCHANGED <<users, nextId, inflight, env, now, jar, loggedOut,
                       hits, fe>>

\* the window (windowMs) of one limiter ends for one client: its counter
\* starts again
WindowElapse ==
  \E ip \in ClientIps, limiter \in {"global", "auth"} :
    /\ hits[ip][limiter] > 0 \/ reached[ip].any > 0
    /\ hits' = [hits EXCEPT ![ip][limiter] = 0]
    /\ reached' = IF limiter = "global"
                    THEN [reached EXCEPT ![ip].any = 0]
                    ELSE [reached EXCEPT ![ip].auth = 0]
    /\ UNCHANGED <<users, nextId, inflight, env, now, jar, loggedOut, last, fe>>

----------------------------------------------------------------------------
(* The single-page application: AuthProvider, the routes of App, the       *)
(* response interceptor of the API service, and the pages                  *)

\* the paths a visitor opens the application at
Paths == {"/", "/login", "/register", "/other"}

\* a ProtectedRoute that does not wait for the session check
ProtectedRoute_NoLoading(isAuthenticated, isLoading) ==
  IF ~isAuthenticated THEN "Navigate" ELSE "Home"

\* ProtectedRoute: what it renders
ProtectedRoute(isAuthenticated, isLoading) ==
  IF isLoading THEN "Checking"
  ELSE IF ~isAuthenticated THEN "Navigate"
  ELSE "Home"

\* the Routes of App at a path: the page shown, the path after the
\* Navigate elements have acted, their number, and what ProtectedRoute
\* rendered ("" when it was not rendered)
AppRoutes(path, isAuthenticated, isLoading) ==
  LET guard == ProtectedRoute(isAuthenticated, isLoading)
      hops == IF path = "/" THEN 0 ELSE 1
  IN  IF path = "/login"
        THEN [path |-> "/login", view |-> "Login", redirects |-> 0,
              guard |-> ""]
      ELSE IF path = "/register"
        THEN [path |-> "/register", view |-> "Register", redirects |-> 0,
              guard |-> ""]
      ELSE IF guard = "Navigate"
        THEN [path |-> "/login", view |-> "Login", redirects |-> hops + 1,
              guard |-> guard]
      ELSE [path |-> "/", view |-> guard, redirects |-> hops, guard |-> guard]

\* an interceptor that sends the browser to /login from every page
interceptor_EveryPage(status, pathname) == status \in {401, 403}

\* the response interceptor on a failed request: whether it assigns
\* window.location.href = '/login'
interceptor(status, pathname) ==
  /\ status \in {401, 403}
  /\ pathname \notin {"/login", "/register"}

\* counters of the browser, counted up to MaxCalls
CountUp(n, k) == IF n + k > MaxCalls THEN MaxCalls ELSE n + k

\* React renders the routes after a change of state or path; a Home that
\* appears mounts and sends its own getProfile with the cookie of the
\* browser
render(f, cookie) ==
  LET r == AppRoutes(f.path, f.isAuthenticated, f.isLoading)
      mountsHome == r.view = "Home" /\ f.view # "Home"
  IN  [f EXCEPT
         !.path = r.path,
         !.view = r.view,
         !.guard = IF r.guard = "" THEN @ ELSE r.guard,
         !.redirects = CountUp(@, r.redirects),
         !.home = IF mountsHome THEN "sent"
                  ELSE IF r.view = "Home" THEN @ ELSE "off",
         !.homeCookie = IF mountsHome THEN cookie
                        ELSE IF r.view = "Home" THEN @ ELSE NoToken,
         !.profileCalls = IF mountsHome THEN CountUp(@, 1) ELSE @]

\* the document loads at a path: AuthProvider starts with isLoading true
\* and isAuthenticated false, and checkAuth sends getProfile
mount(path, f, cookie) ==
  render([NoPage EXCEPT
            !.path = path,
            !.isLoading = TRUE,
            !.check = "sent",
            !.checkCookie = cookie,
            !.redirects = f.redirects,
            !.profileCalls = CountUp(f.profileCalls, 1)],
         cookie)

\* a visitor opens the application
PageLoad ==
  \E p \in Paths :
    /\ fe.path = "none"
    /\ fe' = mount(p, fe, jar)
    /\ UNCHANGED <<users, nextId, inflight, env, now, jar, loggedOut, last,
                   hits, reached>>

\* the browser holds an authToken cookie that is no token of this server
StaleCookie ==
  /\ fe.path = "none"
  /\ jar = NoToken
  /\ jar' = GarbageToken
  /\ UNCHANGED <<users, nextId, inflight, env, now, loggedOut, last,
                 hits, reached, fe>>

\* window.location.href = '/login' takes effect: the document loads again
Reload ==
  /\ fe.reload
  /\ fe' = mount("/login", [fe EXCEPT !.redirects = CountUp(@, 1)], jar)
  /\ UNCHANGED <<users, nextId, inflight, env, now, jar, loggedOut, last,
                 hits, reached>>

\* the getProfile of checkAuth is answered
CheckAuthResponse ==
  \E dbOk \in StoreAnswers :
    LET r == profileRoute(fe.checkCookie, <<>>, 0, users, env, now, dbOk)
        ok == r.status = 200
    IN  /\ fe.check = "sent"
        /\ last' = r
        /\ fe' = render([fe EXCEPT
                           !.check = "done",
                           !.isAuthenticated = ok,
                           !.isLoading = FALSE,
                           !.reload = @ \/ (~ok /\ interceptor(r.status, fe.path))],
                        jar)
        /\ UNCHANGED <<users, nextId, inflight, env, now, jar, loggedOut,
                       hits, reached>>

\* the getProfile of Home is answered
HomeResponse ==
  \E dbOk \in StoreAnswers :
    LET r == profileRoute(fe.homeCookie, <<>>, 0, users, env, now, dbOk)
        ok == r.status = 200
    IN  /\ fe.home = "sent"
        /\ last' = r
        /\ fe' = render([fe EXCEPT
                           !.home = "done",
                           !.isAuthenticated = IF ok THEN @ ELSE FALSE,
                           !.error = IF ok THEN ""
                                     ELSE "Gagal memuat profil. Sesi mungkin telah berakhir.",
                           !.reload = @ \/ (~ok /\ interceptor(r.status, fe.path))],
                        jar)
        /\ UNCHANGED <<users, nextId, inflight, env, now, jar, loggedOut,
                       hits, reached>>

\* the fields of the Login form
LoginForms ==
  { b \in LoginBodies : IsString(b.email) /\ IsString(b.password) }

\* handleMasuk: the checks of the form, the login request, and on success
\* setIsAuthenticated(true) and navigate('/')
LoginSubmit ==
  \E form \in LoginForms, dbOk \in StoreAnswers :
    LET r == login(form, users, env, now, dbOk).out
        cookie == applyCookie(r.cookie, jar)
    IN  /\ fe.view = "Login"
        /\ IF ~emailRegex(form.email.v)
             THEN /\ fe' = [fe EXCEPT !.error = "Format email tidak valid."]
                  /\ UNCHANGED <<jar, last>>
           ELSE IF Len(form.password.v) < 1
             THEN /\ fe' = [fe EXCEPT !.error = "Password tidak boleh kosong."]
                  /\ UNCHANGED <<jar, last>>
           ELSE /\ last' = Reply("login", r, NoClaims, TRUE)
                /\ jar' = cookie
                /\ fe' = IF r.status = 200
                           THEN render([fe EXCEPT !.isAuthenticated = TRUE,
                                                  !.path = "/",
                                                  !.error = ""],
                                       cookie)
                           ELSE [fe EXCEPT
                                   !.error = r.body.message,
                                   !.reload = @ \/ interceptor(r.status, fe.path)]
        /\ UNCHANGED <<users, nextId, inflight, env, now, loggedOut,
                       hits, reached>>

\* handleKeluar of Home: the logout request, then setIsAuthenticated(false)
\* and navigate('/login') whatever the answer
Keluar ==
  LET r == logoutRoute(jar, <<>>, env, now)
  IN  /\ fe.view = "Home"
      /\ last' = r
      /\ jar' = applyCookie(r.cookie, jar)
      /\ loggedOut' = IF r.ran THEN extractToken(jar, <<>>) ELSE loggedOut
      /\ fe' = render([fe EXCEPT
                         !.isAuthenticated = FALSE,
                         !.path = "/login",
                         !.reload = @ \/ interceptor(r.status, fe.path)],
                      NoToken)
      /\ UNCHANGED <<users, nextId, inflight, env, now, hits, reached>>

\* the Link between the Login page and the Register page
FollowLink ==
  /\ fe.view \in {"Login", "Register"}
  /\ fe' = render([fe EXCEPT
                     !.path = IF fe.view = "Login" THEN "/register"
                              ELSE "/login",
                     !.error = ""],
                  jar)
  /\ UNCHANGED <<users, nextId, inflight, env, now, jar, loggedOut, last,
                 hits, reached>>

\* what an <input maxLength> holds of the text typed into it
inputValue(typed, maxLength) ==
  IF Len(typed) > maxLength THEN SubSeq(typed, 1, maxLength) ELSE typed

\* a name of 101 letters
NameLong == [i \in 1..(NameMaxLen + 1) |-> "a"]

\* one letter between blanks
NameBlankPadded == <<" ","J"," ">>

FormNames ==
  {NameGood, NamePadded, NameShort, NameBlankPadded, NameDigit, NameTab,
   NameLong}

FormEmails == {EmailLower, EmailUpper, EmailSpace, EmailNoAt}

FormPasswords ==
  {PassGood, PassShort, PassNoDigit, PassNoLetter, PassShortDigits}

\* what visitors type into the Register form: a good form with one field
\* replaced, and a second good form with the same email in upper case
RegisterForms ==
  { [name |-> n, email |-> EmailLower, password |-> PassGood] :
      n \in FormNames }
    \cup { [name |-> NameGood, email |-> e, password |-> PassGood] :
             e \in FormEmails }
    \cup { [name |-> NameGood, email |-> EmailLower, password |-> p] :
             p \in FormPasswords }
    \cup { [name |-> NamePadded, email |-> EmailUpper, password |-> PassOther] }

\* a form that lets passwords of six characters through
handleDaftarValidate_SixChars(form) ==
  LET namaPengguna == inputValue(form.name, NameMaxLen)
      email == form.email
      kataSandi == form.password
      reject(m) == [ok |-> FALSE, error |-> m,
                    body |-> RegBody(Undefined, Undefined, Undefined)]
  IN  IF ~nameRegex(namaPengguna) \/ Len(trim(namaPengguna)) < NameMinLen
        THEN reject("Nama hanya boleh menggunakan huruf dan spasi (minimal 2 karakter).")
      ELSE IF ~emailRegex(email)
        THEN reject("Format email tidak valid.")
      ELSE IF Len(kataSandi) < 6
        THEN reject("Password minimal 8 karakter.")
      ELSE IF ~hasLetter(kataSandi)
        THEN reject("Password harus mengandung minimal 1 huruf.")
      ELSE IF ~hasDigit(kataSandi)
        THEN reject("Password harus mengandung minimal 1 angka.")
      ELSE [ok |-> TRUE, error |-> "",
            body |-> RegBody(JStr(trim(namaPengguna)), JStr(trim(email)),
                             JStr(kataSandi))]

\* handleDaftar up to the request: the checks of the form on what its
\* inputs hold, and the body it submits
handleDaftarValidate(form) ==
  LET namaPengguna == inputValue(form.name, NameMaxLen)
      email == form.email
      kataSandi == form.password
      reject(m) == [ok |-> FALSE, error |-> m,
                    body |-> RegBody(Undefined, Undefined, Undefined)]
  IN  IF ~nameRegex(namaPengguna) \/ Len(trim(namaPengguna)) < NameMinLen
        THEN reject("Nama hanya boleh menggunakan huruf dan spasi (minimal 2 karakter).")
      ELSE IF ~emailRegex(email)
        THEN reject("Format email tidak valid.")
      ELSE IF Len(kataSandi) < PasswordMinLen
        THEN reject("Password minimal 8 karakter.")
      ELSE IF ~hasLetter(kataSandi)
        THEN reject("Password harus mengandung minimal 1 huruf.")
      ELSE IF ~hasDigit(kataSandi)
        THEN reject("Password harus mengandung minimal 1 angka.")
      ELSE [ok |-> TRUE, error |-> "",
            body |-> RegBody(JStr(trim(namaPengguna)), JStr(trim(email)),
                             JStr(kataSandi))]

\* handleDaftar: the checks of the form, the register request, and on
\* success navigate('/login')
DaftarOf(forms, faults) ==
  \E form \in forms, fault \in faults :
    LET f == handleDaftarValidate(form)
        v == registerValidate(f.body, users, fault # "find")
        r == registerCreate(f.body, users, nextId, genSalt(nextId), now,
                            fault # "create")
        out == IF v.done THEN v.out ELSE r.out
    IN  /\ fe.view = "Register"
        /\ inflight = <<>>
        /\ IF ~f.ok
             THEN /\ fe' = [fe EXCEPT !.error = f.error]
                  /\ UNCHANGED <<users, nextId, last>>
             ELSE /\ last' = Reply("register", out, NoClaims, TRUE)
                  /\ users' = IF v.done THEN users ELSE r.store
                  /\ nextId' = IF out.status = 201 THEN nextId + 1 ELSE nextId
                  /\ fe' = IF out.status = 201
                             THEN render([fe EXCEPT !.path = "/login",
                                                    !.error = ""], jar)
                             ELSE [fe EXCEPT
                                     !.error = out.body.message,
                                     !.reload = @ \/ interceptor(out.status, fe.path)]
        /\ UNCHANGED <<inflight, env, now, jar, loggedOut, hits, reached>>

DaftarSubmit == DaftarOf(RegisterForms, {"none", "find", "create"})

\* the forms of two users who register with good values
ValidForms ==
  { [name |-> NamePadded, email |-> EmailLower, password |-> PassGood],
    [name |-> NameGood, email |-> EmailOther, password |-> PassOther] }

SessionDaftar == DaftarOf(ValidForms, {"none"})

\* the session lifecycle: users register and log in, then use and end
\* their sessions while time passes
SessionRegister ==
  RegisterOf({ [body |-> b, fault |-> "none"] : b \in ValidRegisterBodies })

SessionLogin ==
  LoginOf({ [body |-> LoginBody(b.email, b.password), dbOk |-> TRUE] :
              b \in ValidRegisterBodies })

ProfileApiKeyReject ==
  ApiKeyRejectOf({ [op |-> "profile", path |-> "/profile"] })

Next ==
  \/ SessionRegister
  \/ SessionLogin
  \/ ProfileApiKeyReject
  \/ GetProfile
  \/ Logout
  \/ Tick

Spec == Init /\ [][Next]_vars

\* sessions of clients that send a cookie and an Authorization header
NextCookie ==
  \/ SessionRegister
  \/ SessionLogin
  \/ GetProfileBoth
  \/ Logout
  \/ Tick

SpecCookie == Init /\ [][NextCookie]_vars

\* profile requests of several users that wait for the store at the same
\* time, while users register and log in
NextConc ==
  \/ SessionRegister
  \/ SessionLogin
  \/ ProfileAwait
  \/ ProfileResume

SpecConc == Init /\ [][NextConc]_vars

\* the application in the browser of a user who registers, logs in and
\* logs out
NextFrontend ==
  \/ PageLoad
  \/ CheckAuthResponse
  \/ Reload
  \/ SessionDaftar
  \/ LoginSubmit
  \/ HomeResponse
  \/ Keluar
  \/ FollowLink

SpecFrontend == Init /\ [][NextFrontend]_vars

\* the Register page with everything a visitor can type into its form
NextForm ==
  \/ PageLoad
  \/ CheckAuthResponse
  \/ DaftarSubmit
  \/ FollowLink

SpecForm == Init /\ [][NextForm]_vars

\* the application in the browser of a visitor without an account
NextVisitor ==
  \/ StaleCookie
  \/ PageLoad
  \/ CheckAuthResponse
  \/ Reload
  \/ LoginSubmit
  \/ FollowLink

\* the visitor opens the application, requests are answered and a
\* navigation of the document that was started completes
SpecVisitor ==
  /\ Init
  /\ [][NextVisitor]_vars
  /\ WF_vars(PageLoad)
  /\ WF_vars(CheckAuthResponse)
  /\ WF_vars(Reload)

\* registration and login with every kind of request
NextAuth ==
  \/ Register
  \/ Login
  \/ LoginLegacy
  \/ ApiKeyReject

SpecAuth == Init /\ [][NextAuth]_vars

\* concurrent registrations
NextRace ==
  \/ RegisterAwait
  \/ RegisterResume

SpecRace == Init /\ [][NextRace]_vars

\* every operation of the router that has /logout, with every kind of
\* request and with store faults
NextStore ==
  \/ Register
  \/ Login
  \/ GetProfile
  \/ Logout

SpecStore == Init /\ [][NextStore]_vars

\* one server configuration, for the specifications of the limiters
InitLimit == Init /\ env.JWT_SECRET # "" /\ env.NODE_ENV = "production"

\* the clients of the application that has the limiters
NextLimit ==
  \/ LimitedRequest
  \/ WindowElapse

SpecLimit == InitLimit /\ [][NextLimit]_vars

\* the clients of the application that has none
NextUnlimited ==
  \/ UnlimitedRequest
  \/ WindowElapse

SpecUnlimited == InitLimit /\ [][NextUnlimited]_vars

----------------------------------------------------------------------------
(* Properties                                                              *)

normalized(email) == trim(toLowerCase(email))

DuplicateReply == Msg("Email sudah terdaftar!")

\* the replies of the first login to requests that pass its validation and
\* whose email matches no stored user
MissReplies ==
  { login(b, users, env, now, TRUE).out :
      b \in { x \in AllLoginBodies :
                /\ IsString(x.email) /\ IsString(x.password)
                /\ ~Falsy(x.email) /\ ~Falsy(x.password)
                /\ emailRegex(x.email.v)
                /\ \A u \in users : u.email # normalized(x.email.v) } }

\* ... and whose email matches a stored user but whose password does not
WrongPasswordReplies ==
  { login(b, users, env, now, TRUE).out :
      b \in { x \in AllLoginBodies :
                /\ IsString(x.email) /\ IsString(x.password)
                /\ ~Falsy(x.email) /\ ~Falsy(x.password)
                /\ emailRegex(x.email.v)
                /\ \E u \in users : /\ u.email = normalized(x.email.v)
                                    /\ u.password.digest # <<u.password.salt, x.password.v>> } }

\* C1: a login that passes validation gets the same status code and the
\* same body whether its email matches no stored user or matches one whose
\* password differs; only the log line tells the two apart.
C1_AntiEnumeration ==
  \A r1 \in MissReplies \cup WrongPasswordReplies :
    \A r2 \in MissReplies \cup WrongPasswordReplies :
      r1.status = r2.status /\ r1.body = r2.body

\* C1 witness: a login with a wrong password has been rejected while some
\* other email would match no user
C1_Witness ==
  /\ last.op = "login"
  /\ last.status = 401
  /\ last.log.message = "Login gagal - password salah"
  /\ MissReplies # {}
  /\ WrongPasswordReplies # {}

\* C2: every (name, email, password) that register accepts with 201 logs
\* in afterwards, with the same email string and the same password string,
\* with 200 and the id that register returned (on a server whose
\* JWT_SECRET is set and whose store answers).
C2_RegisterThenLogin ==
  env.JWT_SECRET # "" =>
    \A b \in AllRegisterBodies :
      LET v == registerValidate(b, users, TRUE)
          r == registerCreate(b, users, nextId, genSalt(nextId), now, TRUE)
          l == login(LoginBody(b.email, b.password), r.store, env, now, TRUE).out
      IN  (~v.done /\ r.out.status = 201) =>
            (l.status = 200 /\ l.body.user.id = r.out.body.data.id)

\* the fields of a register request pass every validation of the controller
FieldsValid(b) ==
  /\ IsString(b.name) /\ IsString(b.email) /\ IsString(b.password)
  /\ ~Falsy(b.name) /\ ~Falsy(b.email) /\ ~Falsy(b.password)
  /\ nameRegex(trim(b.name.v))
  /\ Len(trim(b.name.v)) >= NameMinLen
  /\ Len(trim(b.name.v)) <= NameMaxLen
  /\ emailRegex(normalized(b.email.v))
  /\ Len(b.password.v) >= PasswordMinLen
  /\ hasLetter(b.password.v)
  /\ hasDigit(b.password.v)

\* the email of a register request, lower-cased and trimmed, is stored
EmailStored(b) ==
  /\ IsString(b.email)
  /\ \E u \in users : u.email = normalized(b.email.v)

\* C3 as stated: every register request whose email, compared
\* case-insensitively and ignoring surrounding whitespace, is the email of a
\* stored user is answered 400 'Email sudah terdaftar!' and leaves the
\* store as it is.
C3_DuplicateAlwaysRejected ==
  \A b \in AllRegisterBodies :
    EmailStored(b) =>
      LET v == registerValidate(b, users, TRUE)
      IN  v.done /\ v.out.status = 400 /\ v.out.body = DuplicateReply

\* C3 amended: a register request that passes the field validations, whose
\* normalized email is stored when the existence check runs and whose
\* lookup is answered, gets 400 'Email sudah terdaftar!'; and no register
\* request answered with 400 changes the store.
C3_DuplicateRejectedAfterValidation ==
  /\ [](\A b \in AllRegisterBodies :
          (FieldsValid(b) /\ EmailStored(b)) =>
            LET v == registerValidate(b, users, TRUE)
            IN  v.done /\ v.out.status = 400 /\ v.out.body = DuplicateReply)
  /\ [][(last' # last /\ last'.op = "register" /\ last'.status = 400)
          => users' = users]_vars

\* C3 witness: a register request was answered as a duplicate
C3_Witness ==
  /\ last.op = "register"
  /\ last.status = 400
  /\ last.body = DuplicateReply
  /\ users # {}

\* a register request lost the insert to the unique index on email
RaceLost ==
  /\ last.op = "register"
  /\ last.log.message = "Error pada proses registrasi"
  /\ last.log.meta.error = "UniqueConstraintViolation"

\* C4: when two register requests for the same email both pass the
\* existence check before either inserts, the unique index lets one insert
\* succeed, and the request whose insert it rejects is answered with the
\* duplicate rejection (400), not with a server fault.
C4_RaceLoserGetsDuplicate ==
  /\ \A u1 \in users : \A u2 \in users : u1.email = u2.email => u1 = u2
  /\ RaceLost => (last.status = 400 /\ last.body = DuplicateReply)

\* C5: POST /logout answers 200 and clears the authToken cookie in every
\* session state: with no token, an invalid token, an expired token, and
\* after an earlier logout.
C5_LogoutAlwaysSucceeds ==
  last.op = "logout" => (last.status = 200 /\ last.cookie.act = "clear")

\* the token is well formed, signed with the secret of the server and
\* not expired
TokenValid(tok) ==
  /\ tok.kind = "jwt"
  /\ env.JWT_SECRET # ""
  /\ tok.sig = hmac(env.JWT_SECRET, tok.id, tok.email, tok.iat, tok.exp)
  /\ now < tok.exp

\* the replies of the two protected routes to one set of credentials
ProtectedReplies(cred) ==
  { profileRoute(cred.cookie, cred.header, 0, users, env, now, TRUE),
    logoutRoute(cred.cookie, cred.header, env, now) }

\* C6 as stated: on a protected route the handler runs only if the
\* extracted token is valid; every other request is answered by
\* verifyToken with 401 or 403, whatever the configuration.
C6_RejectedWith401Or403 ==
  \A cred \in AllCredentials :
    \A r \in ProtectedReplies(cred) :
      LET tok == extractToken(cred.cookie, cred.header)
      IN  /\ r.ran => TokenValid(tok)
          /\ ~TokenValid(tok) =>
               (~r.ran /\ r.by = "verifyToken" /\ r.status \in {401, 403})

\* C6 amended: on a protected route the handler runs only if the extracted
\* token is valid; every other request is answered before the handler by
\* verifyToken: 401 without a token, 500 with a token while JWT_SECRET is
\* unset, 403 otherwise; on the router of userRoutes.ts verifyApiKey may
\* answer 403 before verifyToken is reached.
C6_TokenGate ==
  /\ \A cred \in AllCredentials :
       \A r \in ProtectedReplies(cred) :
         LET tok == extractToken(cred.cookie, cred.header)
         IN  /\ r.ran => (TokenValid(tok) /\ r.user.id = tok.id)
             /\ ~TokenValid(tok) =>
                  /\ ~r.ran
                  /\ r.by = "verifyToken"
                  /\ r.status = IF tok = NoToken THEN 401
                                ELSE IF env.JWT_SECRET = "" THEN 500
                                ELSE 403
  /\ last.op \in {"profile", "logout"} =>
       IF last.ran
         THEN last.by \in {"getUser", "logoutUser"} /\ last.user # NoClaims
         ELSE \/ last.by = "verifyApiKey" /\ last.status = 403
              \/ last.by = "verifyToken" /\ last.status \in {401, 403}
              \/ /\ last.by = "verifyToken"
                 /\ last.status = 500
                 /\ env.JWT_SECRET = ""

\* C6 witness: verifyToken turned an expired token away
C6_Witness ==
  /\ last.op = "profile"
  /\ ~last.ran
  /\ last.by = "verifyToken"
  /\ last.status = 403
  /\ last.log.meta.errorType = "TokenExpiredError"

\* C7: the profile returned is the record of the user whose id is the id
\* claim of the verified token; the ids a client puts in the request
\* change nothing of the response.
C7_ProfileOfTokenSubject ==
  \A cred \in AllCredentials :
    \A ok \in StoreAnswers :
      LET tok == extractToken(cred.cookie, cred.header)
          p == profileRoute(cred.cookie, cred.header, 0, users, env, now, ok)
      IN  /\ \A q \in QueryIds :
               profileRoute(cred.cookie, cred.header, q, users, env, now, ok) = p
          /\ p.status = 200 =>
               /\ TokenValid(tok)
               /\ p.body.data.id = tok.id
               /\ \E u \in users :
                    /\ u.id = tok.id
                    /\ p.body.data = [id |-> u.id, name |-> u.name,
                                      email |-> u.email,
                                      createdAt |-> u.createdAt]

\* C7 witness: a profile was returned while another user is stored
C7_Witness ==
  /\ last.op = "profile"
  /\ last.status = 200
  /\ last.body.data.id = last.user.id
  /\ \E u \in users : u.id # last.user.id

\* the body carries neither a password field nor the fields of a stored row
\* beyond those named
BodyClean(body) ==
  /\ "password" \notin DOMAIN body
  /\ "data" \in DOMAIN body =>
       DOMAIN body.data \subseteq {"id", "name", "email", "createdAt"}
  /\ "user" \in DOMAIN body =>
       DOMAIN body.user \subseteq {"id", "name", "email"}

\* C8: no response body of register, login, profile or logout carries the
\* password or its hash; register and login return exactly id, name and
\* email of the user, profile returns exactly id, name, email and createdAt.
C8_NoPasswordInBody ==
  /\ BodyClean(last.body)
  /\ (last.op = "register" /\ last.status = 201) =>
       \E u \in users :
         last.body.data = [id |-> u.id, name |-> u.name, email |-> u.email]
  /\ (last.op = "login" /\ last.status = 200) =>
       \E u \in users :
         last.body.user = [id |-> u.id, name |-> u.name, email |-> u.email]
  /\ (last.op = "profile" /\ last.status = 200) =>
       \E u \in users :
         last.body.data = [id |-> u.id, name |-> u.name, email |-> u.email,
                           createdAt |-> u.createdAt]
  /\ \A b \in RegisterBodies :
       /\ BodyClean(registerValidate(b, users, TRUE).out.body)
       /\ BodyClean(registerCreate(b, users, nextId, genSalt(nextId), now,
                                   TRUE).out.body)
  /\ \A b \in LoginBodies :
       /\ BodyClean(login(b, users, env, now, TRUE).out.body)
       /\ BodyClean(loginLegacy(b, users, env, now, TRUE).out.body)
  /\ \A cred \in AllCredentials :
       \A r \in ProtectedReplies(cred) : BodyClean(r.body)

\* C8 witness: a profile was returned
C8_Witness ==
  /\ last.op = "profile"
  /\ last.status = 200
  /\ DOMAIN last.body.data = {"id", "name", "email", "createdAt"}

\* C9: while JWT_SECRET is unset no login answers 200, issues a token or
\* sets a cookie, and verifyToken lets no request through; no token is
\* ever signed with another secret than JWT_SECRET.
C9_FailClosed ==
  /\ (env.JWT_SECRET = "" /\ last.op \in {"login", "loginLegacy"}) =>
       /\ last.status # 200
       /\ last.cookie.act = "none"
       /\ "token" \notin DOMAIN last.body
  /\ env.JWT_SECRET = "" =>
       \A cred \in AllCredentials :
         ~verifyToken(cred.cookie, cred.header, env, now, "/profile").next
  /\ ("token" \in DOMAIN last.body) =>
       last.body.token.sig[1] = env.JWT_SECRET

\* C10: a token with which a logout succeeded is accepted by verifyToken,
\* from the cookie or from the Authorization header, on every later
\* request before its expiry.
C10_NoRevocation ==
  (loggedOut # NoToken /\ now < loggedOut.exp) =>
    /\ verifyToken(NoToken, <<SchemeWord, loggedOut>>, env, now, "/profile").next
    /\ verifyToken(loggedOut, <<>>, env, now, "/profile").next
    /\ logoutRoute(NoToken, <<SchemeWord, loggedOut>>, env, now).ran
    /\ profileRoute(NoToken, <<SchemeWord, loggedOut>>, 0, users, env, now,
                    TRUE).status = 200

\* C10 witness: after the logout, with no cookie left in the browser and
\* at a later time, the logged-out token fetched the profile
C10_Witness ==
  /\ loggedOut # NoToken
  /\ jar = NoToken
  /\ now > loggedOut.iat
  /\ last.op = "profile"
  /\ last.status = 200
  /\ last.user.id = loggedOut.id
  /\ last.user.iat = loggedOut.iat

\* the message of verifyToken for a token that fails verification
InvalidTokenReply == Msg("Token tidak valid atau sudah expired!")

\* the tokens a login of this server issued and that are still around
IssuedTokens == {jar, loggedOut} \ {NoToken}

\* C11: a token issued by a successful login is accepted under the same
\* secret, with the id and email of the user who logged in, at every time
\* before 24 hours after its issuance, and is answered with the uniform
\* invalid/expired error from then on.
C11_TokenWindow ==
  \A tok \in IssuedTokens :
    LET v == verifyToken(tok, <<>>, env, now, "/profile")
        h == verifyToken(NoToken, <<SchemeWord, tok>>, env, now, "/profile")
    IN  /\ \E u \in users : u.id = tok.id /\ u.email = tok.email
        /\ now < tok.iat + OneDay =>
             /\ v.next /\ h.next
             /\ v.user.id = tok.id /\ v.user.email = tok.email
             /\ h.user = v.user
        /\ now >= tok.iat + OneDay =>
             /\ ~v.next /\ ~h.next
             /\ v.out.status = 403 /\ v.out.body = InvalidTokenReply
             /\ h.out.status = 403 /\ h.out.body = InvalidTokenReply

\* C11 witness: the cookie of the browser, issued 24 hours ago, was
\* turned away as expired
C11_Witness ==
  /\ jar # NoToken
  /\ now >= jar.iat + OneDay
  /\ last.op = "profile"
  /\ last.by = "verifyToken"
  /\ last.status = 403
  /\ last.log.meta.errorType = "TokenExpiredError"

\* the replies of the protected routes to the credentials whose token
\* reaches jwt.verify and fails it
FailedVerificationReplies ==
  UNION { ProtectedReplies(cred) :
            cred \in { c \in AllCredentials :
                         LET tok == extractToken(c.cookie, c.header)
                         IN  /\ tok # NoToken
                             /\ env.JWT_SECRET # ""
                             /\ ~TokenValid(tok) } }

\* C12: every token that fails verification, whether it is malformed,
\* tampered with, signed with another secret or expired, gets the same
\* status and the same body; only the log line names the cause.
C12_UniformVerificationError ==
  /\ \A r \in FailedVerificationReplies :
       /\ r.status = 403
       /\ r.body = InvalidTokenReply
       /\ r.log.meta.errorType \in {"JsonWebTokenError", "TokenExpiredError"}
  /\ \A r1 \in FailedVerificationReplies :
       \A r2 \in FailedVerificationReplies :
         r1.status = r2.status /\ r1.body = r2.body

\* C12 witness: an expired token and a badly signed one are both at hand
\* and the badly signed one was turned away
C12_Witness ==
  /\ \E r \in FailedVerificationReplies :
       r.log.meta.errorType = "TokenExpiredError"
  /\ \E r \in FailedVerificationReplies :
       r.log.meta.errorType = "JsonWebTokenError"
  /\ last.by = "verifyToken"
  /\ last.status = 403
  /\ last.log.meta.errorType = "JsonWebTokenError"

\* C13 as stated: on a server with JWT_SECRET set, GET /profile answers
\* 401 to a request without a token and to a request whose token fails
\* verification.
C13_ProfileRejects401 ==
  env.JWT_SECRET # "" =>
    \A cred \in AllCredentials :
      LET tok == extractToken(cred.cookie, cred.header)
          p == profileRoute(cred.cookie, cred.header, 0, users, env, now, TRUE)
      IN  ~TokenValid(tok) => p.status = 401

\* C13 amended: GET /profile answers 401 'Token akses diperlukan!' to a
\* request without a token, and 403 'Token tidak valid atau sudah
\* expired!' to a request whose token fails verification (500 when the
\* token cannot be verified because JWT_SECRET is unset).
C13_Profile401NoToken403Invalid ==
  \A cred \in AllCredentials :
    LET tok == extractToken(cred.cookie, cred.header)
        p == profileRoute(cred.cookie, cred.header, 0, users, env, now, TRUE)
    IN  /\ tok = NoToken =>
             p.status = 401 /\ p.body = Msg("Token akses diperlukan!")
        /\ (tok # NoToken /\ env.JWT_SECRET # "" /\ ~TokenValid(tok)) =>
             p.status = 403 /\ p.body = InvalidTokenReply
        /\ (tok # NoToken /\ env.JWT_SECRET = "") =>
             p.status = 500 /\ p.body = Msg(ServerFaultMsg)

\* C13 witness: a profile request with a token that fails verification
\* was answered 403 while the browser holds no cookie
C13_Witness ==
  /\ last.op = "profile"
  /\ last.by = "verifyToken"
  /\ last.status = 403
  /\ last.body = InvalidTokenReply
  /\ jar = NoToken

\* C14: the cookie a login sets is named authToken, is HttpOnly and
\* SameSite=Lax, is Secure exactly when NODE_ENV is 'production', and its
\* Max-Age in milliseconds is the lifetime of the token it carries.
C14_CookieAttributes ==
  (last.op = "login" /\ last.cookie.act = "set") =>
    /\ last.cookie.name = "authToken"
    /\ last.cookie.httpOnly
    /\ last.cookie.sameSite = "lax"
    /\ last.cookie.secure <=> (env.NODE_ENV = "production")
    /\ last.cookie.maxAge = 24 * 60 * 60 * 1000
    /\ last.cookie.value.kind = "jwt"
    /\ last.cookie.maxAge = (last.cookie.value.exp - last.cookie.value.iat) * 1000
    /\ jar = last.cookie.value

\* C14 witness: a login set the cookie on a production server
C14_Witness ==
  /\ last.op = "login"
  /\ last.status = 200
  /\ last.cookie.act = "set"
  /\ last.cookie.secure
  /\ env.NODE_ENV = "production"

\* the attributes by which a browser matches a clearing instruction to the
\* cookie it holds
CookieScope(c) ==
  [name |-> c.name, path |-> c.path, httpOnly |-> c.httpOnly,
   secure |-> c.secure, sameSite |-> c.sameSite]

\* C15: in every environment the clearing instruction of logout has the
\* name, path, HttpOnly, Secure and SameSite of the instruction with which
\* login sets the cookie, and a logout that ran leaves no cookie in the
\* browser.
C15_ClearMatchesAttach ==
  /\ \A e \in Envs :
       CookieScope(logoutUser([user |-> NoClaims], e).cookie)
         = CookieScope(setAuthCookie(NoToken, e))
  /\ (last.op = "login" /\ last.cookie.act = "set") =>
       CookieScope(last.cookie)
         = CookieScope(logoutUser([user |-> NoClaims], env).cookie)
  /\ (last.op = "logout" /\ last.ran) =>
       /\ last.cookie.act = "clear"
       /\ last.cookie.value = NoToken
       /\ last.cookie.maxAge = 0
       /\ CookieScope(last.cookie) = CookieScope(setAuthCookie(loggedOut, env))
       /\ jar = NoToken

\* C15 witness: a logout cleared the cookie on a production server
C15_Witness ==
  /\ last.op = "logout"
  /\ last.ran
  /\ last.cookie.act = "clear"
  /\ env.NODE_ENV = "production"
  /\ jar = NoToken

\* the second word of the Authorization header, if it has one
BearerOf(header) == IF Len(header) >= 2 THEN header[2] ELSE NoToken

\* C16: verifyToken verifies the authToken cookie when the request has
\* one, whatever the Authorization header says; it verifies the token of
\* the Authorization header only when there is no cookie; with neither it
\* answers 401 'Token akses diperlukan!' and verifies nothing.
C16_ExtractionOrder ==
  \A cred \in AllCredentials :
    LET v == verifyToken(cred.cookie, cred.header, env, now, "/profile")
        c == verifyToken(cred.cookie, <<>>, env, now, "/profile")
        h == verifyToken(NoToken, cred.header, env, now, "/profile")
    IN  /\ cred.cookie # NoToken => (v = c /\ v.token = cred.cookie)
        /\ cred.cookie = NoToken => (v = h /\ v.token = BearerOf(cred.header))
        /\ (cred.cookie = NoToken /\ BearerOf(cred.header) = NoToken) =>
             /\ ~v.next
             /\ v.out.status = 401
             /\ v.out.body = Msg("Token akses diperlukan!")
             /\ v.out.log.message = "Percobaan akses tanpa token"

\* C16 witness: the browser holds a valid cookie, so that a request with a
\* malformed cookie and that token in the header is turned away although
\* the header alone is let through; such a request was answered 403
C16_Witness ==
  /\ jar # NoToken
  /\ verifyToken(NoToken, <<SchemeWord, jar>>, env, now, "/profile").next
  /\ ~verifyToken(GarbageToken, <<SchemeWord, jar>>, env, now, "/profile").next
  /\ verifyToken(jar, <<SchemeWord, forgedToken(now)>>, env, now, "/profile").next
  /\ last.op = "profile"
  /\ last.by = "verifyToken"
  /\ last.status = 403
  /\ last.log.meta.errorType = "JsonWebTokenError"

\* C17: a successful login delivers the token through the authToken cookie
\* only: the 200 body has the fields message and user and no token.
C17_TokenOnlyInCookie ==
  (last.op \in {"login", "loginLegacy"} /\ last.status = 200) =>
    /\ DOMAIN last.body = {"message", "user"}
    /\ last.cookie.act = "set"
    /\ last.cookie.name = "authToken"

PasswordTooShort == Msg("Password minimal 8 karakter!")

PasswordNeedsLetter == Msg("Password harus mengandung minimal 1 huruf!")

PasswordNeedsDigit == Msg("Password harus mengandung minimal 1 angka!")

\* the register requests whose name and email pass their checks and whose
\* password is a non-empty string
PasswordCases ==
  { b \in AllRegisterBodies :
      /\ IsString(b.name) /\ IsString(b.email) /\ IsString(b.password)
      /\ ~Falsy(b.name) /\ ~Falsy(b.email) /\ ~Falsy(b.password)
      /\ nameRegex(trim(b.name.v))
      /\ Len(trim(b.name.v)) >= NameMinLen
      /\ Len(trim(b.name.v)) <= NameMaxLen
      /\ emailRegex(normalized(b.email.v)) }

\* C18: register accepts a password iff it has at least 8 characters, a
\* letter and a digit; the rules are checked in the order length, letter,
\* digit, the first one that fails gives its own 400 message, and a
\* request rejected by a password rule stores no user.
C18_PasswordPolicy ==
  /\ [](\A b \in PasswordCases :
          LET pw == b.password.v
              long == Len(pw) >= 8
              letter == \E i \in 1..Len(pw) : pw[i] \in Letters
              digit == \E i \in 1..Len(pw) : pw[i] \in Digits
              v == registerValidate(b, users, TRUE)
          IN  /\ ~long => (v.done /\ v.out.status = 400
                             /\ v.out.body = PasswordTooShort)
              /\ (long /\ ~letter) => (v.done /\ v.out.status = 400
                                         /\ v.out.body = PasswordNeedsLetter)
              /\ (long /\ letter /\ ~digit) =>
                   (v.done /\ v.out.status = 400
                      /\ v.out.body = PasswordNeedsDigit)
              /\ (long /\ letter /\ digit) =>
                   \/ ~v.done
                   \/ v.out.body = DuplicateReply)
  /\ [][(/\ last' # last
         /\ last'.op = "register"
         /\ last'.body \in {PasswordTooShort, PasswordNeedsLetter,
                            PasswordNeedsDigit})
          => (last'.status = 400 /\ users' = users)]_vars

\* C18 witness: a password without a digit was rejected with the message of
\* the digit rule
C18_Witness ==
  /\ last.op = "register"
  /\ last.status = 400
  /\ last.body = PasswordNeedsDigit

\* C19: every stored user has an email equal to its own lower-cased and
\* trimmed form that matches local@domain.tld, and a name of 2 to 100
\* characters that are letters or spaces, without whitespace at either end.
C19_StoredUserWellFormed ==
  \A u \in users :
    /\ u.email = trim(toLowerCase(u.email))
    /\ emailRegex(u.email)
    /\ Len(u.name) >= 2
    /\ Len(u.name) <= 100
    /\ \A i \in 1..Len(u.name) : u.name[i] \in Letters \cup {" "}
    /\ u.name[1] \notin Whitespace
    /\ u.name[Len(u.name)] \notin Whitespace

\* the body is a JSON object whose only field is message
OnlyMessage(body) == DOMAIN body = {"message"}

\* C20: every failure response of register, login, profile and the token
\* middleware has a body whose only field is message, and every server
\* fault is 500 with the body {message: 'Terjadi kesalahan pada server.'}.
C20_FailureBodyShape ==
  /\ last.status >= 400 =>
       /\ OnlyMessage(last.body)
       /\ last.status = 500 => last.body = Msg(ServerFaultMsg)
  /\ \A cred \in AllCredentials :
       \A ok \in StoreAnswers :
         LET p == profileRoute(cred.cookie, cred.header, 0, users, env, now, ok)
         IN  p.status >= 400 =>
               /\ OnlyMessage(p.body)
               /\ p.status = 500 => p.body = Msg(ServerFaultMsg)

\* C21: for every client IP and every window of a limiter, at most 10
\* requests to /register and /login reach the controllers and at most 100
\* requests of any kind get past the global limiter; a request answered by
\* a limiter never reaches a controller.
C21_RateLimited ==
  /\ \A ip \in ClientIps :
       /\ reached[ip].auth <= 10
       /\ reached[ip].any <= 100
  /\ last.by \in {"globalLimiter", "authLimiter"} => ~last.ran

\* C30: register and login share one counter per client IP: in a window
\* at most 10 of them together reach a controller, the limiter answers the
\* rest with 429, and every request authLimiter counts was counted by
\* globalLimiter.
C30_SharedAuthLimiter ==
  /\ [](\A ip \in ClientIps :
          /\ reached[ip].auth <= 10
          /\ reached[ip].auth <= hits[ip].auth
          /\ hits[ip].auth > 10 => reached[ip].auth = 10)
  /\ [](last.by = "authLimiter" =>
          /\ last.status = 429
          /\ ~last.ran
          /\ last.op \in {"register", "login"})
  /\ [][\A ip \in ClientIps :
          hits'[ip].auth > hits[ip].auth =>
            hits'[ip].global > hits[ip].global]_vars

\* C30 witness: a client used up the ten requests of its window, the next
\* one was answered by authLimiter, and the other client is still served
C30_Witness ==
  /\ reached[ClientIp].auth = 10
  /\ hits[ClientIp].auth = 11
  /\ last.by = "authLimiter"
  /\ last.status = 429
  /\ reached[OtherIp].auth > 0
  /\ hits[OtherIp].auth <= 10

\* C22: a register answered 201 adds exactly one user, with a new id, and
\* changes no stored user; no other request changes the stored users.
C22_StoreFrame ==
  [][/\ users' # users =>
          /\ last'.op = "register"
          /\ last'.status = 201
          /\ \E u \in users' \ users :
               /\ users' = users \cup {u}
               /\ \A w \in users : w.id # u.id /\ w.email # u.email
               /\ last'.body.data.id = u.id
     /\ (last' # last /\ last'.op = "register" /\ last'.status = 201) =>
          Cardinality(users') = Cardinality(users) + 1
     /\ (last' # last /\ ~(last'.op = "register" /\ last'.status = 201)) =>
          users' = users]_vars

\* C22 witness: a second user was registered next to the first
C22_Witness ==
  /\ Cardinality(users) = 2
  /\ last.op = "register"
  /\ last.status = 201

\* C27: a login sets the authToken cookie exactly when it answers 200; a
\* rejected or faulting login and every register leave the cookie of the
\* client as it is; only a logout that passed verifyToken clears it.
C27_CookieSetIffLogin200 ==
  /\ [](/\ last.op = "login" =>
             (last.cookie.act = "set" <=> last.status = 200)
        /\ last.op = "login" => last.cookie.act # "clear"
        /\ last.op \in {"register", "profile"} => last.cookie.act = "none"
        /\ last.cookie.act = "clear" =>
             (last.op = "logout" /\ last.ran /\ last.by = "logoutUser")
        /\ \A b \in LoginBodies : \A ok \in StoreAnswers :
             LET r == login(b, users, env, now, ok).out
             IN  (r.cookie.act = "set" <=> r.status = 200)
                   /\ r.cookie.act # "clear")
  /\ [][jar' # jar =>
          \/ /\ last'.op = "login"
             /\ last'.status = 200
             /\ jar' = last'.cookie.value
          \/ /\ last'.op = "logout"
             /\ last'.ran
             /\ jar' = NoToken]_vars

\* C27 witness: a login was rejected while the browser holds a cookie
C27_Witness ==
  /\ last.op = "login"
  /\ last.status = 401
  /\ last.cookie.act = "none"
  /\ jar # NoToken

\* the status codes with which a response can be sent
SentStatus == {200, 201, 400, 401, 403, 404, 500}

\* C28: every path of register, login, getUser and logoutUser sends exactly
\* one response; verifyToken either calls next() and sends nothing or
\* sends one response and does not call next().
C28_OneOutcomePerRequest ==
  /\ last.op # "none" => last.status \in SentStatus
  /\ \A cred \in AllCredentials :
       LET v == verifyToken(cred.cookie, cred.header, env, now, "/profile")
       IN  /\ v.next <=> v.out.status = 0
           /\ ~v.next => v.out.status \in SentStatus
           /\ \A r \in ProtectedReplies(cred) :
                /\ r.status \in SentStatus
                /\ r.ran <=> v.next
                /\ r.ran <=> r.by \in {"getUser", "logoutUser"}
  /\ \A b \in LoginBodies : \A ok \in StoreAnswers :
       login(b, users, env, now, ok).out.status \in SentStatus
  /\ \A b \in RegisterBodies : \A ok \in StoreAnswers :
       LET v == registerValidate(b, users, ok)
           r == registerCreate(b, users, nextId, genSalt(nextId), now, ok)
       IN  /\ v.done <=> v.out.status # 0
           /\ v.done => v.out.status \in SentStatus
           /\ ~v.done => r.out.status \in SentStatus

\* C28 witness: verifyToken answered a request itself, and before that it
\* had let one through to logoutUser
C28_Witness ==
  /\ last.by = "verifyToken"
  /\ ~last.ran
  /\ last.status \in {401, 403}
  /\ loggedOut # NoToken

\* the requests that carry an authToken cookie and a Bearer token
BothCredentials ==
  { cred \in AllCredentials : cred.cookie # NoToken /\ Len(cred.header) = 2 }

\* C26: of a request with an authToken cookie and an Authorization header
\* only the cookie token is verified: with a cookie token that is invalid
\* or expired the request is rejected with 403 even when the header token
\* is valid, and with a valid cookie token the request runs as the user of
\* the cookie even when the header token names another user.
C26_CookieNoFallback ==
  \A cred \in BothCredentials :
    LET v == verifyToken(cred.cookie, cred.header, env, now, "/profile")
        r == profileRoute(cred.cookie, cred.header, 0, users, env, now, TRUE)
    IN  /\ v.token = cred.cookie
        /\ ~TokenValid(cred.cookie) => ~v.next
        /\ (env.JWT_SECRET # "" /\ ~TokenValid(cred.cookie)) =>
             /\ r.status = 403
             /\ ~r.ran
             /\ r.user = NoClaims
        /\ TokenValid(cred.cookie) =>
             /\ v.next
             /\ v.user.id = cred.cookie.id
             /\ v.user.email = cred.cookie.email
             /\ r.ran
             /\ r.status = 200 => r.body.data.id = cred.cookie.id

\* C26 witness: a request with an expired cookie token and the valid token
\* of another session in the header was answered 403, and the two tokens of
\* the client name different users
C26_Witness ==
  /\ jar # NoToken
  /\ loggedOut # NoToken
  /\ TokenValid(jar)
  /\ ~TokenValid(loggedOut)
  /\ jar.id # loggedOut.id
  /\ last = profileRoute(loggedOut, <<SchemeWord, jar>>, 0, users, env, now,
                         TRUE)
  /\ last.status = 403
  /\ last.log.meta.errorType = "TokenExpiredError"

\* C23: whatever other requests are in flight, a profile request that
\* waited for the store is answered as it would be when handled alone
\* against the store of that moment, and it runs under the identity of its
\* own token, never under that of another request in flight.
C23_RequestIndependence ==
  [][\A i \in 1..Len(inflight) :
       (inflight' = RemoveAt(inflight, i) /\ last' # last) =>
          /\ \E dbOk \in StoreAnswers :
               last' = profileRoute(inflight[i].cookie, inflight[i].header, 0,
                                    users, env, now, dbOk)
          /\ last'.user =
               verifyToken(inflight[i].cookie, inflight[i].header, env, now,
                           "/profile").user
          /\ last'.status = 200 =>
               last'.body.data.id =
                 extractToken(inflight[i].cookie, inflight[i].header).id]_vars

\* C23 witness: the profile request of one user was answered 200 while the
\* request of another user still waits for the store
C23_Witness ==
  /\ last.op = "profile"
  /\ last.ran
  /\ last.status = 200
  /\ Len(inflight) >= 1
  /\ inflight[Len(inflight)].user.id # last.user.id

\* C24: Home is rendered only with isLoading false and isAuthenticated
\* true; while the getProfile of checkAuth is in flight isLoading is true
\* and ProtectedRoute renders neither Home nor the Navigate to /login; and
\* isAuthenticated turns true only on a 200 of getProfile or of login.
C24_RouteGuard ==
  /\ [](/\ fe.view = "Home" => (~fe.isLoading /\ fe.isAuthenticated)
        /\ fe.check = "sent" =>
             /\ fe.isLoading
             /\ fe.view # "Home"
             /\ fe.guard \in {"", "Checking"})
  /\ [][(~fe.isAuthenticated /\ fe'.isAuthenticated) =>
          /\ last'.status = 200
          /\ \/ last'.op = "login"
             \/ last'.op = "profile" /\ last'.by = "getUser"]_vars

\* C24 witness: Home is rendered and its own getProfile was answered 200
C24_Witness ==
  /\ fe.view = "Home"
  /\ fe.home = "done"
  /\ fe.isAuthenticated
  /\ last.op = "profile"
  /\ last.status = 200

\* every combination of the values typed into the Register form
AllRegisterForms ==
  [name : FormNames, email : FormEmails, password : FormPasswords]

\* the password checks of register on their own: a body with a good name
\* and email gets past the field validations
BackendAcceptsPassword(p) ==
  ~registerValidate(RegBody(JStr(NameGood), JStr(EmailLower), JStr(p)),
                    {}, TRUE).done

\* C25: the Register form accepts a password exactly when the password
\* checks of register accept it, and a body the form submits passes every
\* field validation of register: with the store answering, register
\* rejects it only with 400 'Email sudah terdaftar!'.
C25_FormAgreesWithBackend ==
  /\ \A p \in FormPasswords :
       handleDaftarValidate([name |-> NameGood, email |-> EmailLower,
                             password |-> p]).ok
         <=> BackendAcceptsPassword(p)
  /\ \A form \in AllRegisterForms :
       LET f == handleDaftarValidate(form)
           v == registerValidate(f.body, users, TRUE)
       IN  f.ok =>
             /\ FieldsValid(f.body)
             /\ v.done => (v.out.status = 400 /\ v.out.body = DuplicateReply)
  /\ last.op = "register" =>
       \/ last.status \in {201, 500}
       \/ last.status = 400 /\ last.body = DuplicateReply

\* C25 witness: a name of 101 letters was typed, cut to 100 by the input
\* and registered, and a later form with the same email was answered as a
\* duplicate
C25_Witness ==
  /\ \E u \in users : Len(u.name) = NameMaxLen
  /\ fe.view = "Register"
  /\ last.op = "register"
  /\ last.status = 400
  /\ last.body = DuplicateReply

\* the browser rests on /login or /register, the session check done
Settled ==
  /\ fe.path \in {"/login", "/register"}
  /\ fe.check = "done"
  /\ ~fe.isLoading
  /\ ~fe.isAuthenticated
  /\ ~fe.reload

\* C29: a visitor without a valid session, whatever path the application
\* is opened at, ends on /login or /register with isLoading false and
\* isAuthenticated false and stays there, after at most three redirects
\* and two profile requests.
C29_NoRedirectLoop ==
  /\ [](fe.redirects <= 3 /\ fe.profileCalls <= 2)
  /\ <>[]Settled

\* C29 witness: opened at an unknown path, the application came to rest on
\* /login after three redirects and two profile requests
C29_Witness ==
  /\ Settled
  /\ fe.path = "/login"
  /\ fe.redirects = 3
  /\ fe.profileCalls = 2
  /\ last.op = "profile"
  /\ last.status \in {401, 403}

====
